---- MODULE Spec2Model ----
(***************************************************************************)
(* IntelliClaim: the resilient model client, the single-query decision     *)
(* pipeline (chatgpt_app.py and its AWS variant aws_rag_system.py) and the *)
(* batched question-answering orchestrator, as state machines.             *)
(*                                                                         *)
(* Texts are sequences of one-character strings, so that strip(), lower()  *)
(* and substring tests are computed, not assumed.  Python's None is the    *)
(* value None; an exception is a pair <<"raise", message>>.                *)
(***************************************************************************)
EXTENDS Integers, Sequences, FiniteSets, TLC

(***************************************************************************)
(* Python values                                                           *)
(***************************************************************************)
None == <<"None">>

Raise(msg) == <<"raise", msg>>

IsRaise(x) == Len(x) = 2 /\ x[1] = "raise"

Whitespace == {" ", "\n", "\t"}

\* str.strip(): drop leading and trailing whitespace
RECURSIVE LStrip(_)
LStrip(s) ==
    IF s = <<>> THEN <<>>
    ELSE IF Head(s) \in Whitespace THEN LStrip(Tail(s)) ELSE s

RECURSIVE RStrip(_)
RStrip(s) ==
    IF s = <<>> THEN <<>>
    ELSE IF s[Len(s)] \in Whitespace THEN RStrip(SubSeq(s, 1, Len(s) - 1)) ELSE s

Strip(s) == RStrip(LStrip(s))

Upper == <<"A","B","C","D","E","F","G","H","I","J","K","L","M",
           "N","O","P","Q","R","S","T","U","V","W","X","Y","Z">>

Lowers == <<"a","b","c","d","e","f","g","h","i","j","k","l","m",
            "n","o","p","q","r","s","t","u","v","w","x","y","z">>

LowerChar(c) ==
    IF \E i \in 1..26 : Upper[i] = c
    THEN Lowers[CHOOSE i \in 1..26 : Upper[i] = c]
    ELSE c

\* str.lower()
Lower(s) == [i \in 1..Len(s) |-> LowerChar(s[i])]

\* "w in s" for two strs: w occurs in s as a contiguous substring
Contains(s, w) ==
    \E i \in 0..(Len(s) - Len(w)) : SubSeq(s, i + 1, i + Len(w)) = w

Digits == <<"0","1","2","3","4","5","6","7","8","9">>

IsDigitChar(c) == \E i \in 1..10 : Digits[i] = c

DigitVal(c) == (CHOOSE i \in 1..10 : Digits[i] = c) - 1

\* str.isdigit(): non-empty and digits only
IsDigit(s) == s # <<>> /\ \A i \in 1..Len(s) : IsDigitChar(s[i])

\* int() of a digit string
RECURSIVE DigitsToInt(_)
DigitsToInt(s) ==
    IF s = <<>> THEN 0
    ELSE 10 * DigitsToInt(SubSeq(s, 1, Len(s) - 1)) + DigitVal(s[Len(s)])

(***************************************************************************)
(* Values json.loads can give: None, bool, int, float, str, list, dict.    *)
(* A float n + 1/2 is JFloat(n) (the model needs no other fraction); a     *)
(* dict is a function from key names to values.                            *)
(***************************************************************************)
JBool(b) == <<"bool", b>>

JInt(n) == <<"int", n>>

JFloat(n) == <<"float", n>>

JStr(s) == <<"str", s>>

JList(items) == <<"list", items>>

JDict(f) == <<"dict", f>>

TypeOf(v) == v[1]

IsDict(v) == TypeOf(v) = "dict"

IsStr(v) == TypeOf(v) = "str"

HasKey(d, k) == k \in DOMAIN d[2]

\* dict.get(key, default)
Get(d, k, default) == IF HasKey(d, k) THEN d[2][k] ELSE default

\* dict[key] = value
SetKey(d, k, v) == JDict([x \in (DOMAIN d[2]) \cup {k} |-> IF x = k THEN v ELSE d[2][x]])

\* Python truth value: "if not v"
Falsy(v) ==
    \/ v = None
    \/ v = JBool(FALSE)
    \/ v = JInt(0)
    \/ v = JStr(<<>>)
    \/ v = JList(<<>>)
    \/ (IsDict(v) /\ DOMAIN v[2] = {})

Truthy(v) == ~Falsy(v)

\* int(v): an int, or the exception Python raises
PyInt(v) ==
    CASE TypeOf(v) = "int" -> v
      [] TypeOf(v) = "float" -> JInt(IF v[2] >= 0 THEN v[2] ELSE v[2] + 1)
      [] TypeOf(v) = "bool" -> JInt(IF v[2] THEN 1 ELSE 0)
      [] TypeOf(v) = "str" ->
           IF IsDigit(Strip(v[2])) THEN JInt(DigitsToInt(Strip(v[2])))
           ELSE Raise("ValueError: invalid literal for int()")
      [] OTHER -> Raise("TypeError: int() argument")

Min(a, b) == IF a <= b THEN a ELSE b

Max(a, b) == IF a >= b THEN a ELSE b

(***************************************************************************)
(* GPT5Client: one primary model and an ordered list of fallback models.   *)
(* Models are numbered: 0 is the primary, i is fallback_models[i].         *)
(***************************************************************************)
primary_model == 0

fallback_models == <<1, 2, 3, 4>>

Models == {primary_model} \cup {fallback_models[i] : i \in 1..Len(fallback_models)}

\* what one chat.completions.create call can give: an exception, or a
\* message content that is None, empty, whitespace or text
Hello == <<"H", "e", "l", "l", "o">>

Hi == <<"H", "i">>

Contents == {None, <<>>, <<" ", "\n">>, Hello, Hi}

ApiError == Raise("api error")

ModelOutcomes == Contents \cup {ApiError}

VARIABLES
    gen_pc,        \* position in generate_content_async
    gen_outcome,   \* what each model would answer to this prompt
    gen_idx,       \* position of the for loop over fallback_models
    gen_calls,     \* the models invoked so far in this call, in order
    gen_result     \* None while running, then the content or the exception

genVars == <<gen_pc, gen_outcome, gen_idx, gen_calls, gen_result>>

\* "if content and content.strip()": a variant that forgets the strip
ContentOk_noStrip(content) == content # None /\ content # <<>>

ContentOk(content) == content # None /\ content # <<>> /\ Strip(content) # <<>>

\* the body of one try block: the content if the call gave text, else the
\* exception that the except clause swallows
TryModel(outcome) ==
    IF IsRaise(outcome) THEN outcome
    ELSE IF ContentOk(outcome) THEN outcome
    ELSE Raise("Empty response")

AllModelsFailed == Raise("All models failed to generate content")

InitGen ==
    /\ gen_pc = "idle"
    /\ gen_outcome = [m \in Models |-> ApiError]
    /\ gen_idx = 1
    /\ gen_calls = <<>>
    /\ gen_result = None

\* a caller awaits generate_content_async(prompt)
GenCall ==
    /\ gen_pc = "idle"
    /\ \E o \in [Models -> ModelOutcomes] : gen_outcome' = o
    /\ gen_pc' = "primary"
    /\ gen_idx' = 1
    /\ gen_calls' = <<>>
    /\ gen_result' = None

\* the first try block: the primary model, once
GenPrimary ==
    /\ gen_pc = "primary"
    /\ gen_calls' = Append(gen_calls, primary_model)
    /\ LET r == TryModel(gen_outcome[primary_model]) IN
         IF IsRaise(r)
         THEN /\ gen_pc' = "fallback"
              /\ gen_result' = gen_result
         ELSE /\ gen_pc' = "returned"
              /\ gen_result' = r
    /\ UNCHANGED <<gen_outcome, gen_idx>>

\* one iteration of "for fallback_model in self.fallback_models"
GenFallback ==
    /\ gen_pc = "fallback"
    /\ gen_idx <= Len(fallback_models)
    /\ gen_calls' = Append(gen_calls, fallback_models[gen_idx])
    /\ LET r == TryModel(gen_outcome[fallback_models[gen_idx]]) IN
         IF IsRaise(r)
         THEN /\ gen_pc' = "fallback"
              /\ gen_idx' = gen_idx + 1
              /\ gen_result' = gen_result
         ELSE /\ gen_pc' = "returned"
              /\ gen_idx' = gen_idx
              /\ gen_result' = r
    /\ UNCHANGED gen_outcome

\* the loop is over: raise Exception("All models failed to generate content")
GenExhausted ==
    /\ gen_pc = "fallback"
    /\ gen_idx > Len(fallback_models)
    /\ gen_pc' = "raised"
    /\ gen_result' = AllModelsFailed
    /\ UNCHANGED <<gen_outcome, gen_idx, gen_calls>>

NextGen == GenCall \/ GenPrimary \/ GenFallback \/ GenExhausted

(***************************************************************************)
(* Texts the pipeline compares                                             *)
(***************************************************************************)
APPROVED == <<"A", "P", "P", "R", "O", "V", "E", "D">>

REJECTED == <<"R", "E", "J", "E", "C", "T", "E", "D">>

PENDING == <<"P", "E", "N", "D", "I", "N", "G">>

ERROR == <<"E", "R", "R", "O", "R">>

as_per_policy == <<"a", "s", "_", "p", "e", "r", "_", "p", "o", "l", "i", "c", "y">>

not_specified == <<"n", "o", "t", "_", "s", "p", "e", "c", "i", "f", "i", "e", "d">>

claim_eligibility == <<"c", "l", "a", "i", "m", "_", "e", "l", "i", "g", "i", "b", "i", "l", "i", "t", "y">>

waiting_period == <<"w", "a", "i", "t", "i", "n", "g", " ", "p", "e", "r", "i", "o", "d">>

insurance_policy == <<"i", "n", "s", "u", "r", "a", "n", "c", "e", " ", "p", "o", "l", "i", "c", "y">>

coverage == <<"c", "o", "v", "e", "r", "a", "g", "e">>

surgery == <<"s", "u", "r", "g", "e", "r", "y">>

cataract == <<"c", "a", "t", "a", "r", "a", "c", "t">>

Pune == <<"P", "u", "n", "e">>

unknown == <<"u", "n", "k", "n", "o", "w", "n">>

heart == <<"h", "e", "a", "r", "t">>

male == <<"m", "a", "l", "e">>

female == <<"f", "e", "m", "a", "l", "e">>

\* a fixed message of the program, and one that carries an exception's text
Msg(text) == <<"msg", text>>

MsgWith(text, detail) == <<"msg", text, detail>>

(***************************************************************************)
(* Documents of the vector store.  A chunk's text is known by what the     *)
(* program's searches find in it: kw[c] is the number of synonyms of       *)
(* clause category c that occur in it, waiting the number the waiting-     *)
(* period regex captures (None if no match), amounts[i] what the i-th of   *)
(* amount_patterns captures.                                               *)
(***************************************************************************)
Categories == {"waiting period", "maternity"}

AmountKeys == <<"room_rent", "icu", "surgery", "general_coverage", "general_coverage", "general_coverage">>

Doc1 == [id |-> 1, kw |-> [c \in Categories |-> IF c = "maternity" THEN 2 ELSE 0],
         waiting |-> None,
         amounts |-> <<None, None, None, None, None, None>>]

Doc2 == [id |-> 2, kw |-> [c \in Categories |-> IF c = "waiting period" THEN 1 ELSE 0],
         waiting |-> JInt(24),
         amounts |-> <<JInt(5000), None, None, None, JInt(300000), JInt(500000)>>]

Doc3 == [id |-> 3, kw |-> [c \in Categories |-> IF c = "waiting period" THEN 3 ELSE 1],
         waiting |-> None,
         amounts |-> <<None, None, JInt(75000), None, None, None>>]

\* score_clause_bias(query, text): q_cats are the categories one of whose
\* synonyms occurs in the query
RECURSIVE SumOver(_, _)
SumOver(f, S) ==
    IF S = {} THEN 0
    ELSE LET x == CHOOSE y \in S : TRUE IN f[x] + SumOver(f, S \ {x})

score_clause_bias(q_cats, doc) == SumOver(doc.kw, q_cats)

\* sorted(docs, key=score, reverse=True): stable, highest score first
RECURSIVE InsertByScore(_, _, _)
InsertByScore(sorted, d, q_cats) ==
    IF sorted = <<>> THEN <<d>>
    ELSE IF score_clause_bias(q_cats, Head(sorted)) >= score_clause_bias(q_cats, d)
         THEN <<Head(sorted)>> \o InsertByScore(Tail(sorted), d, q_cats)
         ELSE <<d>> \o sorted

RECURSIVE SortedByBias(_, _)
SortedByBias(docs, q_cats) ==
    IF docs = <<>> THEN <<>>
    ELSE InsertByScore(SortedByBias(SubSeq(docs, 1, Len(docs) - 1), q_cats),
                       docs[Len(docs)], q_cats)

(***************************************************************************)
(* Queries.  A query text is known by what the extraction regexes and      *)
(* keyword lists find in it:                                               *)
(*   age          the number before "year(s) old"              (or None)   *)
(*   has_m        'male' in q or 'm' in q                                   *)
(*   has_female   'female' in q or 'woman' in q                             *)
(*   location     the first gazetteer entry found, title-cased (or None)   *)
(*   procedure    the first procedure keyword found            (or None)   *)
(*   old_policy   the number before "month/year old policy"    (or None)   *)
(*   policy       the number before "month/year policy"        (or None)   *)
(*   duration     the first number before "month/year"         (or None)   *)
(*   near_old     "year old" occurs up to 20 characters after that number  *)
(*   cats         clause categories one of whose synonyms occurs in it     *)
(***************************************************************************)
\* "46-year-old male, knee surgery in Pune, 3-month-old insurance policy"
Query1 == [id |-> 1, age |-> JInt(46), has_m |-> TRUE, has_female |-> FALSE,
           location |-> JStr(Pune), procedure |-> JStr(surgery),
           old_policy |-> None, policy |-> None, duration |-> JInt(46),
           near_old |-> TRUE, cats |-> {}]

\* "cataract, 6 month policy, waiting period?"
Query2 == [id |-> 2, age |-> None, has_m |-> TRUE, has_female |-> FALSE,
           location |-> None, procedure |-> JStr(cataract),
           old_policy |-> None, policy |-> JInt(6), duration |-> JInt(6),
           near_old |-> FALSE, cats |-> {"waiting period"}]

\* "is this paid?"
Query3 == [id |-> 3, age |-> None, has_m |-> FALSE, has_female |-> FALSE,
           location |-> None, procedure |-> None,
           old_policy |-> None, policy |-> None, duration |-> None,
           near_old |-> FALSE, cats |-> {}]

\* "70 years old, cataract, 2 years old policy"
Query4 == [id |-> 4, age |-> JInt(70), has_m |-> FALSE, has_female |-> FALSE,
           location |-> None, procedure |-> JStr(cataract),
           old_policy |-> JInt(2), policy |-> None, duration |-> JInt(70),
           near_old |-> TRUE, cats |-> {}]

Queries == {Query1, Query2, Query3, Query4}

\* QueryUnderstandingAgent._extract_entities_fallback
PolicyDuration(q) ==
    IF q.old_policy # None THEN q.old_policy
    ELSE IF q.policy # None THEN q.policy
    ELSE IF q.duration # None /\ ~q.near_old THEN q.duration
    ELSE JInt(1)

Gender(q) ==
    IF q.has_m THEN JStr(male)
    ELSE IF q.has_female THEN JStr(female)
    ELSE None

_extract_entities_fallback(q) ==
    JDict([age |-> q.age,
           gender |-> Gender(q),
           location |-> q.location,
           procedure |-> q.procedure,
           policy_duration_months |-> PolicyDuration(q),
           intent |-> JStr(claim_eligibility)])

(***************************************************************************)
(* What the model client gives the pipeline: the all-models-failed          *)
(* exception, or a text.  A text is known by its layout: a fence ("none",  *)
(* "json" for ```json ... ```, "bare" for ``` ... ```) around a document   *)
(* that is prose without braces, a brace span that is not JSON, or the     *)
(* serialisation of a JSON value (lists hold no objects here).             *)
(***************************************************************************)
Prose == <<"prose">>

Malformed == <<"malformed">>

Fences == {"none", "json", "bare"}

Text(fence, doc) == <<"text", fence, doc>>

JSONDecodeError == Raise("JSONDecodeError")

\* json.loads(clean_json_response(text)): the fences are removed when the
\* text starts with ```json and ends with ```; a text with a brace is cut to
\* the span from its first { to its last }; the rest is parsed as it stands
ParseCleaned(text) ==
    LET fence == text[2]
        doc == text[3]
    IN  IF doc = Prose \/ doc = Malformed THEN JSONDecodeError
        ELSE IF IsDict(doc) THEN doc
        ELSE IF fence = "bare" THEN JSONDecodeError
        ELSE doc

\* re.search(r'\{.*\}', text, re.DOTALL) followed by json.loads of the match
ParseBraceSpan(text) ==
    LET doc == text[3]
    IN  IF doc = Malformed THEN JSONDecodeError
        ELSE IF doc # Prose /\ IsDict(doc) THEN doc
        ELSE Raise("No JSON found in decision response")

(***************************************************************************)
(* DecisionReasoningAgent                                                  *)
(***************************************************************************)
ApproveWords == {<<"a", "p", "p", "r", "o", "v", "e", "d">>,
                 <<"a", "p", "p", "r", "o", "v", "e">>,
                 <<"e", "l", "i", "g", "i", "b", "l", "e">>,
                 <<"a", "c", "c", "e", "p", "t">>}

RejectWords == {<<"r", "e", "j", "e", "c", "t", "e", "d">>,
                 <<"r", "e", "j", "e", "c", "t">>,
                 <<"d", "e", "n", "i", "e", "d">>,
                 <<"d", "e", "n", "y">>,
                 <<"n", "o", "t", " ", "e", "l", "i", "g", "i", "b", "l", "e">>}

PendingWords == {<<"p", "e", "n", "d", "i", "n", "g">>,
                 <<"f", "u", "r", "t", "h", "e", "r">>,
                 <<"i", "n", "v", "e", "s", "t", "i", "g", "a", "t", "i", "o", "n">>,
                 <<"i", "n", "f", "o", "r", "m", "a", "t", "i", "o", "n">>,
                 <<"u", "n", "d", "e", "c", "i", "d", "e", "d">>}

\* a variant that never lower-cases the model's decision text
_normalize_decision_noLower(decision_str) ==
    IF Falsy(decision_str) THEN JStr(PENDING)
    ELSE IF ~IsStr(decision_str) THEN Raise("AttributeError: lower")
    ELSE decision_str

_normalize_decision(decision_str) ==
    IF Falsy(decision_str) THEN JStr(PENDING)
    ELSE IF ~IsStr(decision_str) THEN Raise("AttributeError: lower")
    ELSE LET decision_lower == Strip(Lower(decision_str[2])) IN
         IF \E word \in ApproveWords : Contains(decision_lower, word) THEN JStr(APPROVED)
         ELSE IF \E word \in RejectWords : Contains(decision_lower, word) THEN JStr(REJECTED)
         ELSE IF \E word \in PendingWords : Contains(decision_lower, word) THEN JStr(PENDING)
         ELSE JStr(PENDING)

\* re.sub(r'[₹,rs\s$€£¥]', '', s)
AmountNoise == {"₹", ",", "r", "s", "$", "€", "£", "¥"} \cup Whitespace

RECURSIVE RemoveNoise(_)
RemoveNoise(s) ==
    IF s = <<>> THEN <<>>
    ELSE IF Head(s) \in AmountNoise THEN RemoveNoise(Tail(s))
    ELSE <<Head(s)>> \o RemoveNoise(Tail(s))

CoverageOrder == <<"general_coverage", "surgery", "room_rent", "icu">>

RECURSIVE FirstCoverage(_, _)
FirstCoverage(cov, i) ==
    IF i > Len(CoverageOrder) THEN None
    ELSE IF HasKey(cov, CoverageOrder[i]) /\ cov[2][CoverageOrder[i]] # JStr(as_per_policy)
         THEN cov[2][CoverageOrder[i]]
         ELSE FirstCoverage(cov, i + 1)

\* the second half of _process_amount_field: the coverage_limits lookup;
\* an exception (policy_rules or coverage_limits is no dict) gives None
AmountFromRules(policy_rules) ==
    IF Falsy(policy_rules) THEN None
    ELSE IF ~IsDict(policy_rules) THEN None
    ELSE IF ~HasKey(policy_rules, "coverage_limits") THEN None
    ELSE IF ~IsDict(policy_rules[2]["coverage_limits"]) THEN None
    ELSE FirstCoverage(policy_rules[2]["coverage_limits"], 1)

PyStrLower(v) == IF IsStr(v) THEN Lower(v[2]) ELSE <<>>

_process_amount_field(amount_value, policy_rules) ==
    IF /\ Truthy(amount_value)
       /\ amount_value # JStr(<<"n", "u", "l", "l">>)
       /\ PyStrLower(amount_value) # <<"p", "e", "n", "d", "i", "n", "g">>
    THEN IF IsStr(amount_value)
         THEN IF IsDigit(RemoveNoise(amount_value[2]))
              THEN JInt(DigitsToInt(RemoveNoise(amount_value[2])))
              ELSE AmountFromRules(policy_rules)
         ELSE IF TypeOf(amount_value) \in {"int", "float", "bool"}
              THEN PyInt(amount_value)
              ELSE AmountFromRules(policy_rules)
    ELSE AmountFromRules(policy_rules)

\* _extract_policy_rules_fallback: the regex pass over the joined texts
RECURSIVE FirstWaiting(_)
FirstWaiting(docs) ==
    IF docs = <<>> THEN None
    ELSE IF Head(docs).waiting # None THEN Head(docs).waiting
    ELSE FirstWaiting(Tail(docs))

RECURSIVE FirstAmount(_, _)
FirstAmount(docs, i) ==
    IF docs = <<>> THEN None
    ELSE IF Head(docs).amounts[i] # None THEN Head(docs).amounts[i]
    ELSE FirstAmount(Tail(docs), i)

RECURSIVE ApplyAmountPatterns(_, _, _)
ApplyAmountPatterns(limits, docs, i) ==
    IF i > Len(AmountKeys) THEN limits
    ELSE LET key == AmountKeys[i]
             amount == FirstAmount(docs, i)
         IN  IF amount # None /\ limits[key] = JStr(as_per_policy)
             THEN ApplyAmountPatterns([limits EXCEPT ![key] = amount], docs, i + 1)
             ELSE ApplyAmountPatterns(limits, docs, i + 1)

DefaultLimits ==
    [room_rent |-> JStr(as_per_policy), icu |-> JStr(as_per_policy),
     surgery |-> JStr(as_per_policy), general_coverage |-> JStr(as_per_policy)]

_extract_policy_rules_fallback(docs) ==
    LET w == FirstWaiting(docs) IN
    JDict([waiting_periods |->
                JDict([major_surgery |-> IF w # None THEN w ELSE JStr(not_specified),
                       minor_procedure |-> IF w # None THEN w ELSE JStr(not_specified),
                       preventive_care |-> JStr(not_specified)]),
           coverage_limits |-> JDict(ApplyAmountPatterns(DefaultLimits, docs, 1)),
           exclusions |-> JList(<<>>),
           special_benefits |-> JList(<<>>)])

Decision(decision, justification, amount, confidence_score) ==
    JDict([decision |-> decision, justification |-> justification,
           amount |-> amount, confidence_score |-> confidence_score])

\* a < 3 for a Python value a: a bool, or the TypeError
IsNumber(v) == TypeOf(v) \in {"int", "float", "bool"}

LessThan3(v) ==
    CASE TypeOf(v) = "int" -> v[2] < 3
      [] TypeOf(v) = "float" -> v[2] < 3
      [] TypeOf(v) = "bool" -> TRUE

\* _apply_basic_rules(structured_query, docs): a decision or a TypeError
_apply_basic_rules(structured_query) ==
    LET procedure == Get(structured_query, "procedure", None)
        policy_duration == Get(structured_query, "policy_duration_months", JInt(1))
    IN  IF Falsy(procedure)
        THEN Decision(JStr(PENDING), Msg("Procedure type not specified."), None, JInt(30))
        ELSE IF ~IsNumber(policy_duration)
        THEN Raise("TypeError: '<' not supported")
        ELSE IF LessThan3(policy_duration)
        THEN Decision(JStr(PENDING), MsgWith("Policy is only month(s) old.", policy_duration),
                      None, JInt(40))
        ELSE Decision(JStr(PENDING), MsgWith("Policy duration appears sufficient.", policy_duration),
                      None, JInt(60))

\* a shortcut that answers like the insufficient-duration rule
NoDocumentsDecision_asRule ==
    Decision(JStr(PENDING), Msg("Could not retrieve relevant policy documents."), None, JInt(40))

NoDocumentsDecision ==
    Decision(JStr(PENDING), Msg("Could not retrieve relevant policy documents."), None, JInt(20))

\* DecisionReasoningAgent.process, from the model's answer to the decision
\* it writes to the context, or the exception that sends it to the fallback
PrimaryDecision(out) ==
    IF IsRaise(out) THEN out
    ELSE LET decision == ParseCleaned(out) IN
         IF IsRaise(decision) THEN decision
         ELSE CASE TypeOf(decision) = "dict" ->
                     IF HasKey(decision, "decision")
                     THEN LET n == _normalize_decision(decision[2]["decision"]) IN
                          IF IsRaise(n) THEN n ELSE SetKey(decision, "decision", n)
                     ELSE decision
                [] TypeOf(decision) = "list" ->
                     IF \E i \in 1..Len(decision[2]) : decision[2][i] = JStr(<<"d", "e", "c", "i", "s", "i", "o", "n">>)
                     THEN Raise("TypeError: list indices must be integers")
                     ELSE decision
                [] TypeOf(decision) = "str" ->
                     IF Contains(decision[2], <<"d", "e", "c", "i", "s", "i", "o", "n">>)
                     THEN Raise("TypeError: string indices must be integers")
                     ELSE decision
                [] OTHER -> Raise("TypeError: argument is not iterable")

\* min(100, max(0, ...))
ClampConfidence(n) == Min(100, Max(0, n))

RequiredKeys == {"decision", "justification", "amount", "confidence_score"}

\* _make_ai_decision, from the model's answer to the decision it returns,
\* or the exception it re-raises
AIDecision(out, policy_rules) ==
    IF IsRaise(out) THEN out
    ELSE LET decision == ParseBraceSpan(out) IN
         IF IsRaise(decision) THEN decision
         ELSE IF ~(RequiredKeys \subseteq DOMAIN decision[2])
         THEN Raise("Missing required decision fields")
         ELSE LET n == _normalize_decision(decision[2]["decision"])
                  c == PyInt(decision[2]["confidence_score"])
              IN  IF IsRaise(n) THEN n
                  ELSE IF IsRaise(c) THEN c
                  ELSE SetKey(SetKey(SetKey(decision, "decision", n),
                                     "confidence_score", JInt(ClampConfidence(c[2]))),
                              "amount",
                              _process_amount_field(decision[2]["amount"], policy_rules))

\* _extract_policy_rules_ai: the model's rules, or the regex pass when the
\* call or the parse fails
ExtractedRules(out, docs) ==
    IF IsRaise(out) THEN _extract_policy_rules_fallback(docs)
    ELSE LET rules == ParseCleaned(out) IN
         IF IsRaise(rules) THEN _extract_policy_rules_fallback(docs) ELSE rules

(***************************************************************************)
(* What the model may answer to each prompt                                *)
(***************************************************************************)
S_Approved == <<"A", "p", "p", "r", "o", "v", "e", "d">>

S_claim_rejected == <<"c", "l", "a", "i", "m", " ", "r", "e", "j", "e", "c", "t", "e", "d">>

S_banana == <<"b", "a", "n", "a", "n", "a">>

S_not_eligible == <<"n", "o", "t", " ", "e", "l", "i", "g", "i", "b", "l", "e">>

S_high == <<"h", "i", "g", "h">>

S_85 == <<"8", "5">>

S_rupees == <<"₹", "5", "0", ",", "0", "0", "0">>

S_ok == <<"o", "k">>

S_the_decision == <<"t", "h", "e", " ", "d", "e", "c", "i", "s", "i", "o", "n">>

DecisionDocs ==
    { Decision(JStr(S_Approved), JStr(S_ok), JInt(50000), JInt(85)),
      Decision(JStr(S_claim_rejected), JStr(S_ok), None, JInt(150)),
      Decision(JStr(S_banana), JStr(S_ok), JStr(S_rupees), JInt(0 - 5)),
      Decision(None, JStr(S_ok), None, JStr(S_high)),
      Decision(JStr(S_not_eligible), JStr(S_ok), JInt(0 - 100), JFloat(87)),
      Decision(JInt(1), JStr(S_ok), None, JInt(50)),
      Decision(JStr(S_Approved), JStr(S_ok), None, None),
      Decision(JStr(S_Approved), JStr(S_ok), None, JStr(S_85)),
      JDict([justification |-> JStr(S_ok), amount |-> None, confidence_score |-> JInt(70)]),
      JDict([decision |-> JStr(S_Approved), justification |-> JStr(S_ok), amount |-> JInt(1000)]),
      JDict([decision |-> JStr(S_Approved), amount |-> None, confidence_score |-> JInt(70)]),
      JList(<<JInt(1)>>),
      JList(<<JStr(<<"d", "e", "c", "i", "s", "i", "o", "n">>)>>),
      JStr(S_the_decision),
      JStr(S_ok),
      JInt(42),
      None }

RulesDocs ==
    { JDict([coverage_limits |->
                JDict([room_rent |-> JStr(as_per_policy), icu |-> JInt(9000),
                       surgery |-> JInt(200000), general_coverage |-> JStr(as_per_policy)])]),
      JDict([exclusions |-> JList(<<>>)]),
      JList(<<JInt(1)>>) }

\* the structured queries the model may return for query q
ExtractDocs(q) ==
    { _extract_entities_fallback(q),
      SetKey(_extract_entities_fallback(q), "policy_duration_months", None),
      SetKey(SetKey(_extract_entities_fallback(q), "procedure", JStr(surgery)),
             "policy_duration_months", None),
      SetKey(_extract_entities_fallback(q), "procedure", JInt(7)),
      JDict([intent |-> JStr(claim_eligibility)]),
      JList(<<JInt(1)>>) }

LLMOutcomes(docs) ==
    {AllModelsFailed} \cup
    {Text(f, d) : f \in Fences, d \in docs \cup {Prose, Malformed}}

\* what vector_store.similarity_search may give
SearchError == Raise("similarity search failed")

SearchOutcomes == {JList(<<>>), JList(<<Doc1, Doc2>>), JList(<<Doc1, Doc2, Doc3>>), SearchError}

(***************************************************************************)
(* The single-query pipeline: IntelliClaimRAG.process_query (variant       *)
(* "chatgpt") and AWSRAGSystem.process_query (variant "aws").  One action  *)
(* per stage; the reasoning agent is cut at its tiers.                     *)
(***************************************************************************)
MaxQueries == 2

VARIABLES
    variant,          \* which application runs: "chatgpt" or "aws"
    pc,               \* position in process_query
    ctx,              \* the QueryContext of the running call
    query,            \* the query text of the running call, by its features
    policy_rules,     \* local of _make_decision_fallback
    exc,              \* the exception in flight, or None
    response,         \* the DecisionResponse returned, or NoResponse
    retrieval_cache,  \* SemanticRetrievalAgent.retrieval_cache
    initialized,      \* AWSRAGSystem.initialized
    trace,            \* the tiers entered and model calls made by this call
    search_calls,     \* the search strings sent to similarity_search
    cache_hits,       \* the search strings answered from retrieval_cache
    search_errors,    \* the search strings whose similarity search raised
    ai_error,         \* the exception logged by _make_decision_fallback
    nqueries          \* process_query calls started so far

pipeVars == <<variant, pc, ctx, query, policy_rules, exc, response,
              retrieval_cache, initialized, trace, search_calls, cache_hits, search_errors, ai_error, nqueries>>

NewContext == [structured_query |-> None, retrieved_docs |-> None,
               decision |-> None, explanation |-> None]

\* no query is running; no response has been returned
NoQuery == [id |-> 0, age |-> None, has_m |-> FALSE, has_female |-> FALSE,
            location |-> None, procedure |-> None,
            old_policy |-> None, policy |-> None, duration |-> None,
            near_old |-> FALSE, cats |-> {}]

NoResponse == [decision |-> None, amount |-> None, justification |-> None,
               confidence_score |-> None, clause_mappings |-> <<>>,
               audit_trail |-> <<>>, processing_time |-> "none"]

InitPipe ==
    /\ variant \in {"chatgpt", "aws"}
    /\ pc = "idle"
    /\ ctx = NewContext
    /\ query = NoQuery
    /\ policy_rules = None
    /\ exc = None
    /\ response = NoResponse
    /\ retrieval_cache = [k \in {} |-> JList(<<>>)]
    /\ initialized = FALSE
    /\ trace = <<>>
    /\ search_calls = <<>>
    /\ cache_hits = <<>>
    /\ search_errors = <<>>
    /\ ai_error = None
    /\ nqueries = 0

DecisionResponse(decision, amount, justification, confidence, clauses, audit) ==
    [decision |-> decision, amount |-> amount, justification |-> justification,
     confidence_score |-> confidence, clause_mappings |-> clauses,
     audit_trail |-> audit, processing_time |-> "computed"]

\* the except clause of process_query
ErrorResponse(e) ==
    DecisionResponse(JStr(ERROR), None, MsgWith("Processing failed: ", e[2]), JInt(0),
                     <<>>, <<"Error occurred during processing">>)

\* process_query is called: start_time is taken, the context is created
process_query_start ==
    /\ variant = "chatgpt"
    /\ pc \in {"idle", "done"}
    /\ nqueries < MaxQueries
    /\ \E q \in Queries : query' = q
    /\ nqueries' = nqueries + 1
    /\ ctx' = NewContext
    /\ pc' = "understand"
    /\ policy_rules' = None
    /\ exc' = None
    /\ response' = NoResponse
    /\ trace' = <<>>
    /\ ai_error' = None
    /\ UNCHANGED <<variant, retrieval_cache, initialized, search_calls, cache_hits, search_errors>>

\* QueryUnderstandingAgent.process
QueryUnderstandingAgent_process ==
    /\ variant = "chatgpt"
    /\ pc = "understand"
    /\ \E out \in LLMOutcomes(ExtractDocs(query)) :
         LET parsed == IF IsRaise(out) THEN out ELSE ParseCleaned(out) IN
         ctx' = [ctx EXCEPT !.structured_query =
                    IF IsRaise(parsed) THEN _extract_entities_fallback(query) ELSE parsed]
    /\ trace' = Append(trace, "llm:understand")
    /\ pc' = "retrieve"
    /\ UNCHANGED <<variant, query, policy_rules, exc, response, retrieval_cache,
                   initialized, search_calls, cache_hits, search_errors, ai_error, nqueries>>

\* filter(None, [procedure, intent, location, "waiting period"])
RECURSIVE FilterNone(_)
FilterNone(parts) ==
    IF parts = <<>> THEN <<>>
    ELSE IF Falsy(Head(parts)) THEN FilterNone(Tail(parts))
    ELSE <<Head(parts)>> \o FilterNone(Tail(parts))

\* filter(None, [...]) over the four parts of the search string
SearchParts(structured_query) ==
    FilterNone(<<Get(structured_query, "procedure", None),
                 Get(structured_query, "intent", None),
                 Get(structured_query, "location", None),
                 JStr(waiting_period)>>)

\* " ".join(parts)
RECURSIVE Join(_)
Join(parts) ==
    IF parts = <<>> THEN <<>>
    ELSE IF Len(parts) = 1 THEN parts[1][2]
    ELSE parts[1][2] \o <<" ">> \o Join(Tail(parts))

\* a cache that forgets its other entries when it stores one
CachePut_single(cache, key, docs) ==
    [k \in {key} |-> docs]

\* self.retrieval_cache[search_query] = docs
CachePut(cache, key, docs) ==
    [k \in (DOMAIN cache) \cup {key} |-> IF k = key THEN docs ELSE cache[k]]

\* a handler that remembers the empty list of a failed search
CacheOnError_stored(cache, key) == CachePut(cache, key, JList(<<>>))

\* "except Exception": the assignment to the cache was not reached
CacheOnError(cache, key) == cache

\* SemanticRetrievalAgent.process; the search string is never empty, its
\* last part being "waiting period", so original_query is never searched
SemanticRetrievalAgent_process ==
    /\ variant = "chatgpt"
    /\ pc = "retrieve"
    /\ IF ~IsDict(ctx.structured_query)
       THEN /\ exc' = Raise("AttributeError: object has no attribute 'get'")
            /\ pc' = "except"
            /\ UNCHANGED <<ctx, retrieval_cache, search_calls, cache_hits, search_errors>>
       ELSE LET parts == SearchParts(ctx.structured_query) IN
            IF \E i \in 1..Len(parts) : ~IsStr(parts[i])
            THEN /\ exc' = Raise("TypeError: sequence item: expected str instance")
                 /\ pc' = "except"
                 /\ UNCHANGED <<ctx, retrieval_cache, search_calls, cache_hits, search_errors>>
            ELSE LET search_query == Strip(Join(parts)) IN
                 /\ exc' = exc
                 /\ pc' = "decide"
                 /\ IF search_query \in DOMAIN retrieval_cache
                    THEN /\ ctx' = [ctx EXCEPT !.retrieved_docs =
                                      JList(SortedByBias(retrieval_cache[search_query][2], query.cats))]
                         /\ cache_hits' = Append(cache_hits, search_query)
                         /\ UNCHANGED <<retrieval_cache, search_calls, search_errors>>
                    ELSE /\ search_calls' = Append(search_calls, search_query)
                         /\ UNCHANGED cache_hits
                         /\ \E docs \in SearchOutcomes :
                              IF IsRaise(docs)
                              THEN /\ ctx' = [ctx EXCEPT !.retrieved_docs = JList(<<>>)]
                                   /\ retrieval_cache' = CacheOnError(retrieval_cache, search_query)
                                   /\ search_errors' = Append(search_errors, search_query)
                              ELSE /\ retrieval_cache' = CachePut(retrieval_cache, search_query, docs)
                                   /\ UNCHANGED search_errors
                                   /\ ctx' = [ctx EXCEPT !.retrieved_docs =
                                                JList(SortedByBias(docs[2], query.cats))]
    /\ UNCHANGED <<variant, query, policy_rules, response, initialized, trace,
                   ai_error, nqueries>>

\* a reasoning stage that hands over to the explanation whatever happened
AfterPrimary_noFallback(decision) == "explain"

\* "except Exception" of DecisionReasoningAgent.process: the fallback runs
\* only when the primary attempt raised
AfterPrimary(decision) == IF IsRaise(decision) THEN "rules" ELSE "explain"

\* "except Exception" of _make_decision_fallback: the basic rules run only
\* when the AI decision raised; a variant runs them after a success too
AfterAIDecision_always(decision) == "basic"

AfterAIDecision(decision) == IF IsRaise(decision) THEN "basic" ELSE "explain"

\* DecisionReasoningAgent.process up to its except clause: the no-documents
\* shortcut, or the primary reasoning prompt
DecisionReasoningAgent_process ==
    /\ variant = "chatgpt"
    /\ pc = "decide"
    /\ IF Falsy(ctx.retrieved_docs)
       THEN /\ ctx' = [ctx EXCEPT !.decision = NoDocumentsDecision]
            /\ pc' = "explain"
            /\ UNCHANGED trace
       ELSE \E out \in LLMOutcomes(DecisionDocs) :
                 LET decision == PrimaryDecision(out) IN
                 /\ trace' = trace \o <<"tier:primary", "llm:primary",
                                         IF IsRaise(decision) THEN "fail:primary" ELSE "ok:primary">>
                 /\ pc' = AfterPrimary(decision)
                 /\ ctx' = IF IsRaise(decision) THEN ctx
                           ELSE [ctx EXCEPT !.decision = decision]
    /\ UNCHANGED <<variant, query, policy_rules, exc, response, retrieval_cache,
                   initialized, search_calls, cache_hits, search_errors, ai_error, nqueries>>

\* _make_decision_fallback, first half: _extract_policy_rules_ai
_extract_policy_rules_ai ==
    /\ variant = "chatgpt"
    /\ pc = "rules"
    /\ IF Falsy(ctx.retrieved_docs)
       THEN /\ ctx' = [ctx EXCEPT !.decision = NoDocumentsDecision]
            /\ pc' = "explain"
            /\ UNCHANGED <<policy_rules, trace>>
       ELSE /\ trace' = trace \o <<"tier:ai", "llm:rules">>
            /\ \E out \in LLMOutcomes(RulesDocs) :
                 policy_rules' = ExtractedRules(out, ctx.retrieved_docs[2])
            /\ pc' = "ai_decision"
            /\ UNCHANGED ctx
    /\ UNCHANGED <<variant, query, exc, response, retrieval_cache,
                   initialized, search_calls, cache_hits, search_errors, ai_error, nqueries>>

\* _make_decision_fallback, second half: _make_ai_decision
_make_ai_decision ==
    /\ variant = "chatgpt"
    /\ pc = "ai_decision"
    /\ \E out \in LLMOutcomes(DecisionDocs) :
         LET decision == AIDecision(out, policy_rules) IN
         /\ trace' = trace \o <<"llm:ai", IF IsRaise(decision) THEN "fail:ai" ELSE "ok:ai">>
         /\ pc' = AfterAIDecision(decision)
         /\ ctx' = IF IsRaise(decision) THEN ctx
                   ELSE [ctx EXCEPT !.decision = decision]
         /\ ai_error' = IF IsRaise(decision) THEN decision ELSE None
    /\ UNCHANGED <<variant, query, policy_rules, exc, response, retrieval_cache,
                   initialized, search_calls, cache_hits, search_errors, nqueries>>

\* the except clause of _make_decision_fallback: _apply_basic_rules
apply_basic_rules ==
    /\ variant = "chatgpt"
    /\ pc = "basic"
    /\ trace' = Append(trace, "tier:basic")
    /\ LET decision == _apply_basic_rules(ctx.structured_query) IN
       IF IsRaise(decision)
       THEN /\ exc' = decision
            /\ pc' = "except"
            /\ UNCHANGED ctx
       ELSE /\ exc' = exc
            /\ pc' = "explain"
            /\ ctx' = [ctx EXCEPT !.decision = decision]
    /\ UNCHANGED <<variant, query, policy_rules, response, retrieval_cache,
                   initialized, search_calls, cache_hits, search_errors, ai_error, nqueries>>

\* the first three documents, as clause mappings
ClauseMappings(docs) ==
    [i \in 1..Min(3, Len(docs)) |-> [clause_text |-> docs[i].id, source |-> docs[i].id]]

\* ExplainabilityAgent.process
ExplainabilityAgent_process ==
    /\ variant = "chatgpt"
    /\ pc = "explain"
    /\ LET decision_text ==
             IF Truthy(ctx.decision) /\ IsDict(ctx.decision)
             THEN Get(ctx.decision, "decision", JStr(unknown))
             ELSE JStr(unknown)
       IN ctx' = [ctx EXCEPT !.explanation =
                    [clause_mappings |-> ClauseMappings(ctx.retrieved_docs[2]),
                     audit_trail |-> <<"Extracted key entities from query.",
                                       <<"Retrieved", Len(ctx.retrieved_docs[2])>>,
                                       <<"Applied rules", decision_text>>>>]]
    /\ pc' = "respond"
    /\ UNCHANGED <<variant, query, policy_rules, exc, response, retrieval_cache,
                   initialized, trace, search_calls, cache_hits, search_errors, ai_error, nqueries>>

\* process_query, after the four stages: the DecisionResponse is built
process_query_return ==
    /\ variant = "chatgpt"
    /\ pc = "respond"
    /\ IF Truthy(ctx.decision) /\ ~IsDict(ctx.decision)
       THEN /\ exc' = Raise("AttributeError: object has no attribute 'get'")
            /\ pc' = "except"
            /\ UNCHANGED response
       ELSE LET decision_data == IF Falsy(ctx.decision) THEN JDict([none \in {} |-> None])
                                 ELSE ctx.decision
            IN /\ response' = DecisionResponse(
                                 Get(decision_data, "decision", JStr(ERROR)),
                                 Get(decision_data, "amount", None),
                                 Get(decision_data, "justification",
                                     Msg("An unknown error occurred.")),
                                 Get(decision_data, "confidence_score", JInt(0)),
                                 ctx.explanation.clause_mappings,
                                 ctx.explanation.audit_trail)
               /\ pc' = "done"
               /\ exc' = exc
    /\ UNCHANGED <<variant, ctx, query, policy_rules, retrieval_cache,
                   initialized, trace, search_calls, cache_hits, search_errors, ai_error, nqueries>>

\* process_query, "except Exception as e": the ERROR response
process_query_except ==
    /\ pc = "except"
    /\ response' = ErrorResponse(exc)
    /\ pc' = "done"
    /\ UNCHANGED <<variant, ctx, query, policy_rules, exc, retrieval_cache,
                   initialized, trace, search_calls, cache_hits, search_errors, ai_error, nqueries>>

NextChat ==
    \/ process_query_start
    \/ QueryUnderstandingAgent_process
    \/ SemanticRetrievalAgent_process
    \/ DecisionReasoningAgent_process
    \/ _extract_policy_rules_ai
    \/ _make_ai_decision
    \/ apply_basic_rules
    \/ ExplainabilityAgent_process
    \/ process_query_return
    \/ process_query_except

(***************************************************************************)
(* AWSRAGSystem.process_query                                              *)
(***************************************************************************)
\* AWSRAGSystem._understand_query
aws_structured_query(q) ==
    JDict([age |-> q.age,
           gender |-> Gender(q),
           location |-> q.location,
           procedure |-> q.procedure,
           policy_duration_months |-> JInt(12),
           intent |-> JStr(claim_eligibility)])

\* the rule table of AWSRAGSystem._make_decision
aws_rule_decision(structured_query) ==
    LET age == Get(structured_query, "age", None)
        procedure == Get(structured_query, "procedure", None)
    IN  IF Truthy(age) /\ age[2] > 65
        THEN IF procedure \in {JStr(cataract), JStr(heart)}
             THEN Decision(JStr(APPROVED), MsgWith("Standard procedure approved for age", age),
                           JInt(50000), JInt(80))
             ELSE Decision(JStr(PENDING), MsgWith("Additional medical review for age", age),
                           None, JInt(60))
        ELSE IF Truthy(age) /\ age[2] < 30
        THEN Decision(JStr(APPROVED), MsgWith("Young age with low risk", age),
                      JInt(30000), JInt(75))
        ELSE Decision(JStr(PENDING), MsgWith("Standard review required for age", age),
                      None, JInt(55))

AwsNoDocumentsDecision ==
    Decision(JStr(PENDING), Msg("No relevant policy documents found. Please upload policy documents for assessment."),
             None, JInt(20))

\* process_query is called: the lazy initialize() runs before the try block
\* and re-raises what vector_db.initialize() raises
aws_process_query_start ==
    /\ variant = "aws"
    /\ pc \in {"idle", "done", "escaped"}
    /\ nqueries < MaxQueries
    /\ \E q \in Queries : query' = q
    /\ nqueries' = nqueries + 1
    /\ ctx' = NewContext
    /\ policy_rules' = None
    /\ response' = NoResponse
    /\ trace' = <<>>
    /\ IF initialized
       THEN /\ pc' = "understand"
            /\ exc' = None
            /\ UNCHANGED initialized
       ELSE \E ok \in BOOLEAN :
              IF ok
              THEN /\ initialized' = TRUE
                   /\ pc' = "understand"
                   /\ exc' = None
              ELSE /\ initialized' = FALSE
                   /\ pc' = "escaped"
                   /\ exc' = Raise("Failed to initialize database")
    /\ ai_error' = None
    /\ UNCHANGED <<variant, retrieval_cache, search_calls, cache_hits, search_errors>>

aws_understand_query ==
    /\ variant = "aws"
    /\ pc = "understand"
    /\ ctx' = [ctx EXCEPT !.structured_query = aws_structured_query(query)]
    /\ pc' = "retrieve"
    /\ UNCHANGED <<variant, query, policy_rules, exc, response, retrieval_cache,
                   initialized, trace, search_calls, cache_hits, search_errors, ai_error, nqueries>>

\* AWSRAGSystem._retrieve_documents; vector_db.similarity_search returns []
\* when its query fails
aws_retrieve_documents ==
    /\ variant = "aws"
    /\ pc = "retrieve"
    /\ \E docs \in SearchOutcomes :
         ctx' = [ctx EXCEPT !.retrieved_docs = IF IsRaise(docs) THEN JList(<<>>) ELSE docs]
    /\ pc' = "decide"
    /\ UNCHANGED <<variant, query, policy_rules, exc, response, retrieval_cache,
                   initialized, trace, search_calls, cache_hits, search_errors, ai_error, nqueries>>

\* AWSRAGSystem._make_decision
aws_make_decision ==
    /\ variant = "aws"
    /\ pc = "decide"
    /\ ctx' = [ctx EXCEPT !.decision =
                 IF Falsy(ctx.retrieved_docs) THEN AwsNoDocumentsDecision
                 ELSE aws_rule_decision(ctx.structured_query)]
    /\ pc' = "explain"
    /\ UNCHANGED <<variant, query, policy_rules, exc, response, retrieval_cache,
                   initialized, trace, search_calls, cache_hits, search_errors, ai_error, nqueries>>

\* AWSRAGSystem._generate_explanation
aws_generate_explanation ==
    /\ variant = "aws"
    /\ pc = "explain"
    /\ ctx' = [ctx EXCEPT !.explanation =
                 [clause_mappings |-> ClauseMappings(ctx.retrieved_docs[2]),
                  audit_trail |-> <<"Extracted key entities from query",
                                    <<"Retrieved", Len(ctx.retrieved_docs[2])>>,
                                    IF Truthy(ctx.decision)
                                    THEN <<"Applied rules", Get(ctx.decision, "decision", JStr(unknown))>>
                                    ELSE <<"Decision processing failed">> >>]]
    /\ pc' = "respond"
    /\ UNCHANGED <<variant, query, policy_rules, exc, response, retrieval_cache,
                   initialized, trace, search_calls, cache_hits, search_errors, ai_error, nqueries>>

\* process_query, after the four stages: log_query (which swallows its own
\* failures), then the DecisionResponse
aws_process_query_return ==
    /\ variant = "aws"
    /\ pc = "respond"
    /\ response' =
         IF Truthy(ctx.decision)
         THEN DecisionResponse(Get(ctx.decision, "decision", JStr(ERROR)),
                               Get(ctx.decision, "amount", None),
                               Get(ctx.decision, "justification", Msg("An unknown error occurred.")),
                               Get(ctx.decision, "confidence_score", JInt(0)),
                               ctx.explanation.clause_mappings,
                               ctx.explanation.audit_trail)
         ELSE DecisionResponse(JStr(ERROR), None, Msg("An unknown error occurred."), JInt(0),
                               ctx.explanation.clause_mappings,
                               ctx.explanation.audit_trail)
    /\ pc' = "done"
    /\ UNCHANGED <<variant, ctx, query, policy_rules, exc, retrieval_cache,
                   initialized, trace, search_calls, cache_hits, search_errors, ai_error, nqueries>>

NextAws ==
    \/ aws_process_query_start
    \/ aws_understand_query
    \/ aws_retrieve_documents
    \/ aws_make_decision
    \/ aws_generate_explanation
    \/ aws_process_query_return

(***************************************************************************)
(* Batch question answering: hackrx_run and its generate_answer groups.    *)
(* The handler now answers 410 before its body; the body is modelled as    *)
(* written, from the validated questions and the chunked document on.      *)
(*                                                                         *)
(* A chunk's text is known by its length, its clause keywords, the offset  *)
(* at which each question term first occurs (-1: nowhere) and the offset   *)
(* of the phrases the override regexes look for (-1: absent):              *)
(*   ident   "Article 21"      affirm  yes / legal / allowed               *)
(*   age     "age below 14"    negat   no / prohibited / not permitted     *)
(*   rs      "Rs 5000"                                                     *)
(* A text cut out of chunks is the sequence of its parts [chunk, lo, hi),  *)
(* which str.join separates by "\n\n".                                     *)
(***************************************************************************)
MAX_CONTEXT_CHARS == 1500

PER_CLAUSE_WINDOW == 400

Terms == {"article", "waiting", "maternity", "child"}

Features == {"ident", "age", "rs", "affirm", "negat"}

\* the shortest prefix of the phrase that the regex still matches
FeatureLen == [f \in Features |->
    CASE f = "ident" -> 9 [] f = "age" -> 11 [] f = "rs" -> 4
      [] f = "affirm" -> 5 [] OTHER -> 10]

NoHits == [t \in Terms |-> -1]

NoFeatures == [f \in Features |-> -1]

NoKeywords == [c \in Categories |-> 0]

Chunk1 == [id |-> 1, len |-> 480,
           kw |-> [NoKeywords EXCEPT !["waiting period"] = 1],
           hits |-> [NoHits EXCEPT !["article"] = 300, !["waiting"] = 40],
           feats |-> [NoFeatures EXCEPT !["ident"] = 300, !["affirm"] = 350]]

Chunk2 == [id |-> 2, len |-> 500,
           kw |-> [NoKeywords EXCEPT !["maternity"] = 2],
           hits |-> [NoHits EXCEPT !["maternity"] = 450, !["child"] = 100],
           feats |-> [NoFeatures EXCEPT !["age"] = 110, !["negat"] = 130]]

Chunk3 == [id |-> 3, len |-> 420, kw |-> NoKeywords, hits |-> NoHits,
           feats |-> [NoFeatures EXCEPT !["rs"] = 410]]

Chunk4 == [id |-> 4, len |-> 30, kw |-> NoKeywords, hits |-> NoHits,
           feats |-> NoFeatures]

Chunk5 == [id |-> 5, len |-> 1000, kw |-> NoKeywords,
           hits |-> [NoHits EXCEPT !["waiting"] = 700],
           feats |-> [NoFeatures EXCEPT !["rs"] = 600]]

Chunk6 == [id |-> 6, len |-> 990, kw |-> NoKeywords, hits |-> NoHits,
           feats |-> NoFeatures]

Chunk7 == [id |-> 7, len |-> 1000,
           kw |-> [NoKeywords EXCEPT !["waiting period"] = 2],
           hits |-> [NoHits EXCEPT !["waiting"] = 100],
           feats |-> NoFeatures]

Chunk8 == [id |-> 8, len |-> 950, kw |-> NoKeywords, hits |-> NoHits,
           feats |-> NoFeatures]

\* a document: its content hash, the length of its text and its chunks
DocLong == [doc_hash |-> 1, doc_length |-> 1350,
            chunks |-> <<Chunk1, Chunk2, Chunk3>>]

DocTiny == [doc_hash |-> 2, doc_length |-> 30, chunks |-> <<Chunk4>>]

DocBig == [doc_hash |-> 3, doc_length |-> 120000,
           chunks |-> <<Chunk5, Chunk6, Chunk7, Chunk8>>]

BatchDocuments == {DocLong, DocTiny, DocBig}

(***************************************************************************)
(* A question is known by what the regexes of generate_answer find in it:  *)
(*   terms       its words of four letters or more that occur in a chunk   *)
(*   cats        clause categories one of whose synonyms occurs in it      *)
(*   complex     longer than 50 characters or has derive/explain/list/...  *)
(*   identifier  (which|under which|what is|according to|in) followed by   *)
(*               article / section / clause                                *)
(*   exact       asks for the age of article 24 or abolition in article 17 *)
(*   age         has "age", "how old", "below what age" or "age of"        *)
(*   amount      has "amount", rs, rupees, $ or a number with a comma      *)
(*   yesno       (is|does|can|will|should|may|must) ... "?", or "legal",   *)
(*               "allowed"                                                 *)
(***************************************************************************)
\* "What is the waiting period for cataract?"
QWait == [id |-> 1, terms |-> <<"waiting">>, cats |-> {"waiting period"},
          complex |-> FALSE, identifier |-> FALSE, exact |-> FALSE,
          age |-> FALSE, amount |-> FALSE, yesno |-> TRUE]

\* "Explain the maternity cover for a second child"
QMaternity == [id |-> 2, terms |-> <<"maternity", "child">>,
               cats |-> {"maternity"},
               complex |-> TRUE, identifier |-> FALSE, exact |-> FALSE,
               age |-> FALSE, amount |-> FALSE, yesno |-> FALSE]

\* "Below what age may a child not work in a factory?"
QAge == [id |-> 3, terms |-> <<"child">>, cats |-> {},
         complex |-> FALSE, identifier |-> FALSE, exact |-> FALSE,
         age |-> TRUE, amount |-> FALSE, yesno |-> TRUE]

\* "What amount of room rent is payable?"
QAmount == [id |-> 4, terms |-> <<>>, cats |-> {},
            complex |-> FALSE, identifier |-> FALSE, exact |-> FALSE,
            age |-> FALSE, amount |-> TRUE, yesno |-> TRUE]

\* "Under which article is equality guaranteed?"
QIdent == [id |-> 5, terms |-> <<"article">>, cats |-> {},
           complex |-> FALSE, identifier |-> TRUE, exact |-> FALSE,
           age |-> FALSE, amount |-> FALSE, yesno |-> TRUE]

\* the question lists a request may carry (validated: non-empty lists)
QuestionLists ==
    { <<QWait>>,
      <<QWait, QWait>>,
      <<QIdent, QAmount>>,
      <<QWait, QMaternity, QAge, QAmount, QWait, QIdent>>,
      <<QWait, QWait, QAge, QAmount, QIdent, QWait>> }

simple_retrieve(docs, k) == SubSeq(docs, 1, Min(k, Len(docs)))

dynamic_k(doc_length) ==
    IF doc_length < 100000 THEN 3 ELSE IF doc_length < 500000 THEN 4 ELSE 5

\* the offset of the first term, in question order, that the chunk contains
RECURSIVE FirstHit(_, _)
FirstHit(terms, chunk) ==
    IF terms = <<>> THEN -1
    ELSE IF chunk.hits[Head(terms)] >= 0 THEN chunk.hits[Head(terms)]
    ELSE FirstHit(Tail(terms), chunk)

\* an excerpt that is not cut at the end of the chunk
build_windowed_context_uncut(terms, chunk, window) ==
    LET first_hit == FirstHit(terms, chunk) IN
    IF first_hit = -1 THEN <<0, window>>
    ELSE LET start == Max(0, first_hit - (window \div 2))
         IN  <<start, start + window>>

\* the excerpt of the chunk as the pair of its bounds <<lo, hi>>
build_windowed_context(terms, chunk, window) ==
    LET first_hit == FirstHit(terms, chunk) IN
    IF first_hit = -1 THEN <<0, Min(chunk.len, window)>>
    ELSE LET start == Max(0, first_hit - (window \div 2))
         IN  <<start, Min(chunk.len, start + window)>>

\* the loop over docs_biased: excerpts cut to what is left of the budget
RECURSIVE WindowedParts(_, _, _)
WindowedParts(docs, terms, chars_left) ==
    IF docs = <<>> \/ chars_left <= 0 THEN <<>>
    ELSE LET w == build_windowed_context(terms, Head(docs), PER_CLAUSE_WINDOW)
             n == Min(w[2] - w[1], chars_left)
         IN  <<[chunk |-> Head(docs), lo |-> w[1], hi |-> w[1] + n]>>
             \o WindowedParts(Tail(docs), terms, chars_left - n)

RECURSIVE PartsLen(_)
PartsLen(parts) ==
    IF parts = <<>> THEN 0
    ELSE (Head(parts).hi - Head(parts).lo) + PartsLen(Tail(parts))

\* len("\n\n".join(parts))
TextLen(parts) ==
    IF parts = <<>> THEN 0 ELSE PartsLen(parts) + 2 * (Len(parts) - 1)

\* re.search(phrase, raw_context): one part holds the phrase
HasFeature(parts, f) ==
    \E i \in 1..Len(parts) :
        LET at == parts[i].chunk.feats[f] IN
        /\ at >= 0
        /\ parts[i].lo <= at
        /\ at + FeatureLen[f] <= parts[i].hi

RetrieveContext(question, document) ==
    LET combined == simple_retrieve(document.chunks,
                                   dynamic_k(document.doc_length))
        docs_biased == SortedByBias(combined, question.cats)
    IN  WindowedParts(docs_biased, question.terms, MAX_CONTEXT_CHARS)


\* the texts of the exceptions a group can meet, as str(e) gives them
AllModelsFailedText == <<"A", "l", "l", " ", "m", "o", "d", "e", "l", "s", " ", "f", "a", "i", "l", "e", "d", " ", "t", "o", " ", "g", "e", "n", "e", "r", "a", "t", "e", " ", "c", "o", "n", "t", "e", "n", "t">>

\* json.loads on a span whose first error is at its 430th character
JSONErrorAtChar429 == <<"E", "x", "p", "e", "c", "t", "i", "n", "g", " ", "v", "a", "l", "u", "e", ":", " ", "l", "i", "n", "e", " ", "1", " ", "c", "o", "l", "u", "m", "n", " ", "4", "3", "0", " ", "(", "c", "h", "a", "r", " ", "4", "2", "9", ")">>

JSONErrorAtChar1 == <<"E", "x", "p", "e", "c", "t", "i", "n", "g", " ", "v", "a", "l", "u", "e", ":", " ", "l", "i", "n", "e", " ", "1", " ", "c", "o", "l", "u", "m", "n", " ", "2", " ", "(", "c", "h", "a", "r", " ", "1", ")">>

MismatchedAnswerCount == <<"M", "i", "s", "m", "a", "t", "c", "h", "e", "d", " ", "a", "n", "s", "w", "e", "r", " ", "c", "o", "u", "n", "t">>

ListIndexOutOfRange == <<"l", "i", "s", "t", " ", "i", "n", "d", "e", "x", " ", "o", "u", "t", " ", "o", "f", " ", "r", "a", "n", "g", "e">>

ArgumentNotIterable == <<"a", "r", "g", "u", "m", "e", "n", "t", " ", "o", "f", " ", "t", "y", "p", "e", " ", "'", "i", "n", "t", "'", " ", "i", "s", " ", "n", "o", "t", " ", "i", "t", "e", "r", "a", "b", "l", "e">>

NoneNotIterable == <<"'", "N", "o", "n", "e", "T", "y", "p", "e", "'", " ", "o", "b", "j", "e", "c", "t", " ", "i", "s", " ", "n", "o", "t", " ", "i", "t", "e", "r", "a", "b", "l", "e">>

\* asyncio.TimeoutError() has an empty text
TimeoutError == Raise(<<>>)

IndexError == Raise(ListIndexOutOfRange)

\* "Error" not in ans, for an answer that is no string or container
TypeError == Raise(ArgumentNotIterable)

\* zip(questions_batch, None)
ZipTypeError == Raise(NoneNotIterable)

NotSpecified == JStr(<<"N", "o", "t", " ", "s", "p", "e", "c", "i", "f", "i", "e", "d", " ", "i", "n", " ", "t", "h", "e", " ", "p", "r", "o", "v", "i", "d", "e", "d", " ", "c", "o", "n", "t", "e", "x", "t", ".">>)

\* a variant that gives up with a single sentinel whatever the batch holds
Sentinels_single(n) == <<NotSpecified>>

\* ["Not specified in the provided context." for _ in questions_batch]
Sentinels(n) == [i \in 1..n |-> NotSpecified]

\* the regex overrides computed for a question from its raw context; the
\* identifier branch indexes the second word of a one-word match
Override(question, raw) ==
    LET numeric ==
            IF question.age
            THEN IF HasFeature(raw, "age") THEN Msg("Fourteen") ELSE None
            ELSE IF question.amount /\ HasFeature(raw, "rs")
                 THEN Msg("Rs 5000") ELSE None
        yesno ==
            IF question.yesno /\ numeric = None
               /\ (HasFeature(raw, "affirm") \/ HasFeature(raw, "negat"))
            THEN IF HasFeature(raw, "affirm") THEN Msg("Yes") ELSE Msg("No")
            ELSE numeric
    IN  IF question.identifier /\ HasFeature(raw, "ident")
        THEN IndexError
        ELSE yesno

batch_size == 5

batch_max_retries == 3

\* a backoff that starts one doubling late
WaitTime_late(attempt) == 5 * (2 ^ (attempt + 1))

\* wait_time = 5 * (2 ** attempt)
WaitTime(attempt) == 5 * (2 ^ attempt)

\* [questions[i:i + batch_size] for i in range(0, len(questions), batch_size)]
Batches(qs) ==
    [g \in 1..((Len(qs) + batch_size - 1) \div batch_size) |->
        SubSeq(qs, (g - 1) * batch_size + 1, Min(g * batch_size, Len(qs)))]

\* the answer the model gives to a question
AnswerFor(question) == JStr(<<"A", Digits[question.id + 1]>>)

AnswersFor(batch) == [i \in 1..Len(batch) |-> AnswerFor(batch[i])]

\* the arrays a response can hold: an answer per question, one answer
\* short, or a number where a sentence was asked for
AnswerArrays(batch) ==
    { AnswersFor(batch),
      SubSeq(AnswersFor(batch), 1, Len(batch) - 1),
      [AnswersFor(batch) EXCEPT ![1] = JInt(14)] }

\* what one awaited call of the batched prompt gives: the client's failure,
\* the timeout of wait_for, or a text.  A text is a JSON array (bare, inside
\* a ```json fence, or inside prose), a JSON object, prose without brackets,
\* or prose whose bracketed span is not JSON
BatchOutcomes(batch) ==
    {Raise(AllModelsFailedText), TimeoutError}
    \cup {<<"text", "array", a>> : a \in AnswerArrays(batch)}
    \cup {<<"text", shape, AnswersFor(batch)>> : shape \in {"fenced", "embedded"}}
    \cup {<<"text", shape, <<>>>> :
             shape \in {"object", "prose", "badspan", "badspan429"}}

\* lines 1409-1419: the parsed answers or the exception of the attempt
ParseAnswers(out, n) ==
    LET shape == out[2]
        answers ==
            CASE shape \in {"array", "fenced", "embedded"} -> JList(out[3])
              [] shape = "object" -> JDict([k \in {"answers"} |-> JList(out[3])])
              [] shape = "prose" -> JList(<<>>)
              [] shape = "badspan429" -> Raise(JSONErrorAtChar429)
              [] OTHER -> Raise(JSONErrorAtChar1)
    IN  IF IsRaise(answers) THEN answers
        ELSE IF TypeOf(answers) # "list" \/ Len(answers[2]) # n
             THEN Raise(MismatchedAnswerCount)
        ELSE answers

\* what the summary call gives: the client's failure or a stripped text of
\* some length (the client returns no text that is empty once stripped)
SummaryOutcomes ==
    {[ok |-> FALSE, len |-> 0], [ok |-> TRUE, len |-> 30],
     [ok |-> TRUE, len |-> 200]}

MaxRequests == 1

VARIABLES
    hx_pc,                   \* "idle", "gather", "done", "raised"
    questions,               \* the request's questions
    document,                \* the request's document
    grp,                     \* the generate_answer coroutine of each batch
    running,                 \* the group that runs between two awaits, or 0
    hackrx_retrieval_cache,  \* retrieval_cache: (doc_hash, question) -> text
    summary_cache,           \* (doc_hash, question) -> length of the summary
    hx_result,               \* the answers returned or the exception raised
    nrequests

batchVars == <<hx_pc, questions, document, grp, running,
               hackrx_retrieval_cache, summary_cache, hx_result, nrequests>>

\* any(len(q) > 50 or any(word in q.lower() for word in [...]) for q in batch)
is_complex_batch(batch) == \E i \in 1..Len(batch) : batch[i].complex

\* the timeout of one model call of the group, in seconds
batch_timeout(batch) == IF is_complex_batch(batch) THEN 30 ELSE 20

NewGroup(batch) ==
    [pc |-> "contexts", batch |-> batch, qi |-> 1,
     timeout |-> batch_timeout(batch), max_retries |-> batch_max_retries,
     batch_contexts |-> <<>>, override_answers |-> <<>>, raw |-> <<>>,
     attempt |-> 0, waits |-> <<>>, log |-> <<>>, causes |-> <<>>,
     answers |-> <<>>, exc |-> None]

InitBatch ==
    /\ hx_pc = "idle"
    /\ questions = <<>>
    /\ document = DocTiny
    /\ grp = [g \in {} |-> NewGroup(<<>>)]
    /\ running = 0
    /\ hackrx_retrieval_cache = [k \in {} |-> <<>>]
    /\ summary_cache = [k \in {} |-> 0]
    /\ hx_result = None
    /\ nrequests = 0

Groups == DOMAIN grp

GroupDone(g) == grp[g].pc \in {"returned", "raised"}

\* POST /api/v1/hackrx/run: the questions are split into batches and one
\* generate_answer coroutine is created per batch; a request starts once
\* the coroutines of the one before have ended
hackrx_run ==
    /\ hx_pc \in {"idle", "done", "raised"}
    /\ \A g \in Groups : GroupDone(g)
    /\ nrequests < MaxRequests
    /\ \E qs \in QuestionLists, d \in BatchDocuments :
        /\ questions' = qs
        /\ document' = d
        /\ grp' = [g \in DOMAIN Batches(qs) |-> NewGroup(Batches(qs)[g])]
    /\ hx_pc' = "gather"
    /\ running' = 0
    /\ hx_result' = None
    /\ nrequests' = nrequests + 1
    /\ UNCHANGED <<hackrx_retrieval_cache, summary_cache>>

MissingOrInvalid == <<"M", "i", "s", "s", "i", "n", "g", " ", "o", "r", " ", "i", "n", "v", "a", "l", "i", "d", " ", "d", "o", "c", "u", "m", "e", "n", "t", "s", " ", "U", "R", "L", " ", "o", "r", " ", "q", "u", "e", "s", "t", "i", "o", "n", "s">>

\* HTTPException(status_code=400, detail=...)
BadRequest == Raise(MissingOrInvalid)

\* lines 1169-1172: a request whose questions are an empty list is refused
hackrx_bad_request ==
    /\ hx_pc \in {"idle", "done", "raised"}
    /\ \A g \in Groups : GroupDone(g)
    /\ nrequests < MaxRequests
    /\ questions' = <<>>
    /\ grp' = [g \in {} |-> NewGroup(<<>>)]
    /\ hx_pc' = "raised"
    /\ hx_result' = BadRequest
    /\ running' = 0
    /\ nrequests' = nrequests + 1
    /\ UNCHANGED <<document, hackrx_retrieval_cache, summary_cache>>

\* raw_context[:1500]
RawPrefix(raw) ==
    [kind |-> "raw", len |-> Min(TextLen(raw), 1500)]

\* lines 1342-1379 and the step to the next question: the context and the
\* override are appended, or the override raises; after the last question
\* the prompt is built and the first attempt awaits the model
EndIteration(G, raw, context) ==
    LET question == G.batch[G.qi]
        minimal == context.len < 50
        override == IF minimal THEN None ELSE Override(question, raw)
        last == G.qi = Len(G.batch)
    IN  IF IsRaise(override)
        THEN [G EXCEPT !.pc = "raised", !.exc = override, !.raw = <<>>,
                       !.batch_contexts =
                           Append(G.batch_contexts, context)]
        ELSE [G EXCEPT !.pc = IF last THEN "call" ELSE "contexts",
                       !.qi = G.qi + 1,
                       !.raw = <<>>,
                       !.batch_contexts =
                           Append(G.batch_contexts,
                                  IF minimal THEN [kind |-> "empty", len |-> 0]
                                  ELSE context),
                       !.override_answers =
                           Append(G.override_answers, override)]

\* a coroutine keeps the event loop until it awaits or ends
Yield(g, G) == IF G.pc = "contexts" THEN g ELSE 0

\* lines 1272-1340 for one question, up to the await of the summary call
build_context(g) ==
    /\ hx_pc # "idle"
    /\ grp[g].pc = "contexts"
    /\ running \in {0, g}
    /\ LET G == grp[g]
           question == G.batch[G.qi]
           key == <<document.doc_hash, question.id>>
           hit == key \in DOMAIN hackrx_retrieval_cache
           raw == IF hit THEN hackrx_retrieval_cache[key]
                  ELSE RetrieveContext(question, document)
           \* ten times avg_faiss
           avg_faiss == IF hit THEN (IF TextLen(raw) <= 1200 THEN 9 ELSE 12)
                        ELSE IF document.chunks = <<>> THEN 0 ELSE 10
           summarize == /\ TextLen(raw) > 0
                        /\ avg_faiss > 11
                        /\ ~(question.identifier \/ question.exact)
           G2 == IF summarize /\ key \notin DOMAIN summary_cache
                 THEN [G EXCEPT !.pc = "summarize", !.raw = raw]
                 ELSE IF summarize
                 THEN EndIteration(G, raw, [kind |-> "summary",
                                            len |-> summary_cache[key]])
                 ELSE EndIteration(G, raw, RawPrefix(raw))
       IN  /\ hackrx_retrieval_cache' =
                IF hit THEN hackrx_retrieval_cache
                ELSE [k \in DOMAIN hackrx_retrieval_cache \cup {key} |->
                         IF k = key THEN raw ELSE hackrx_retrieval_cache[k]]
           /\ grp' = [grp EXCEPT ![g] = G2]
           /\ running' = Yield(g, G2)
    /\ UNCHANGED <<hx_pc, questions, document, summary_cache, hx_result,
                   nrequests>>

\* lines 1325-1334: the summary call returns or fails, and the iteration
\* goes on from line 1342
summarize_context(g) ==
    /\ hx_pc # "idle"
    /\ grp[g].pc = "summarize"
    /\ running = 0
    /\ \E out \in SummaryOutcomes :
        LET G == grp[g]
            question == G.batch[G.qi]
            key == <<document.doc_hash, question.id>>
            context == IF out.ok THEN [kind |-> "summary", len |-> out.len]
                       ELSE RawPrefix(G.raw)
            G2 == EndIteration(G, G.raw, context)
        IN  /\ summary_cache' =
                 IF out.ok
                 THEN [k \in DOMAIN summary_cache \cup {key} |->
                          IF k = key THEN out.len ELSE summary_cache[k]]
                 ELSE summary_cache
            /\ grp' = [grp EXCEPT ![g] = G2]
            /\ running' = Yield(g, G2)
    /\ UNCHANGED <<hx_pc, questions, document, hackrx_retrieval_cache,
                   hx_result, nrequests>>

\* "429" in str(e)
Has429(e) == Contains(e[2], <<"4", "2", "9">>)

\* why an attempt ended as it did: the client raised, wait_for timed out,
\* the text held no JSON array, the array had the wrong length, or "ok"
Cause(out, n) ==
    IF out = TimeoutError THEN "timeout"
    ELSE IF IsRaise(out) THEN "client"
    ELSE IF out[2] \in {"object", "prose", "badspan", "badspan429"} THEN "parse"
    ELSE IF Len(out[3]) # n THEN "length"
    ELSE "ok"

\* lines 1399-1434: one attempt of the retry loop, from the awaited call to
\* the break, the sleep or the sentinels
batch_attempt(g) ==
    /\ hx_pc # "idle"
    /\ grp[g].pc = "call"
    /\ running = 0
    /\ \E out \in BatchOutcomes(grp[g].batch) :
        LET G == grp[g]
            n == Len(G.batch)
            answers == IF IsRaise(out) THEN out ELSE ParseAnswers(out, n)
        IN  grp' = [grp EXCEPT ![g] =
                IF ~IsRaise(answers)
                THEN [G EXCEPT !.pc = "returned", !.answers = answers[2],
                               !.causes = Append(G.causes, Cause(out, n)),
                               !.log = Append(G.log, "ok")]
                ELSE IF Has429(answers) /\ G.attempt < G.max_retries - 1
                THEN [G EXCEPT !.pc = "sleep",
                               !.waits = Append(G.waits, WaitTime(G.attempt)),
                               !.causes = Append(G.causes, Cause(out, n)),
                               !.log = Append(G.log, "429")]
                ELSE [G EXCEPT !.pc = "returned", !.answers = Sentinels(n),
                               !.causes = Append(G.causes, Cause(out, n)),
                               !.log = Append(G.log,
                                   IF Has429(answers) THEN "429"
                                   ELSE "other")]]
    /\ UNCHANGED <<hx_pc, questions, document, running,
                   hackrx_retrieval_cache, summary_cache, hx_result,
                   nrequests>>

\* asyncio.sleep(wait_time) ends and the for loop takes its next attempt;
\* a loop that ran out leaves answers = None for zip
batch_sleep(g) ==
    /\ hx_pc # "idle"
    /\ grp[g].pc = "sleep"
    /\ running = 0
    /\ grp' = [grp EXCEPT ![g] =
            IF grp[g].attempt + 1 < grp[g].max_retries
            THEN [grp[g] EXCEPT !.pc = "call", !.attempt = grp[g].attempt + 1]
            ELSE [grp[g] EXCEPT !.pc = "raised", !.exc = ZipTypeError,
                                !.attempt = grp[g].attempt + 1]]
    /\ UNCHANGED <<hx_pc, questions, document, running,
                   hackrx_retrieval_cache, summary_cache, hx_result,
                   nrequests>>

\* [ans for batch in batched_answers for ans in batch]
RECURSIVE Flatten(_, _)
Flatten(g, n) ==
    IF g > n THEN <<>> ELSE grp[g].answers \o Flatten(g + 1, n)

\* line 1450: "Error" not in ans is evaluated for every answer that is not
\* the sentinel
MetricsRaise(answers) ==
    \E i \in 1..Len(answers) :
        /\ answers[i] # NotSpecified
        /\ TypeOf(answers[i]) \notin {"str", "list", "dict"}

\* asyncio.gather returns the lists of all groups: flatten, metrics, return
gather_return ==
    /\ hx_pc = "gather"
    /\ running = 0
    /\ \A g \in Groups : grp[g].pc = "returned"
    /\ LET answers == Flatten(1, Cardinality(Groups)) IN
        IF MetricsRaise(answers)
        THEN hx_pc' = "raised" /\ hx_result' = TypeError
        ELSE hx_pc' = "done" /\ hx_result' = JList(answers)
    /\ UNCHANGED <<questions, document, grp, running,
                   hackrx_retrieval_cache, summary_cache, nrequests>>

\* asyncio.gather raises the exception of the first group that raised; the
\* other coroutines keep running
gather_raise ==
    /\ hx_pc = "gather"
    /\ running = 0
    /\ \E g \in Groups :
        /\ grp[g].pc = "raised"
        /\ hx_result' = grp[g].exc
    /\ hx_pc' = "raised"
    /\ UNCHANGED <<questions, document, grp, running,
                   hackrx_retrieval_cache, summary_cache, nrequests>>

NextBatch ==
    \/ hackrx_run
    \/ hackrx_bad_request
    \/ \E g \in Groups : build_context(g)
    \/ \E g \in Groups : summarize_context(g)
    \/ \E g \in Groups : batch_attempt(g)
    \/ \E g \in Groups : batch_sleep(g)
    \/ gather_return
    \/ gather_raise


(***************************************************************************)
(* Decision normalization as a function of its own: the decision texts a   *)
(* model may write are phrases of up to MaxWords words of a vocabulary,    *)
(* in lower case, capitalised or in upper case, or empty.                  *)
(***************************************************************************)
MaxWords == 2

DecisionWords ==
    { <<"a", "p", "p", "r", "o", "v", "e", "d">>,
      <<"a", "p", "p", "r", "o", "v", "e">>,
      <<"e", "l", "i", "g", "i", "b", "l", "e">>,
      <<"a", "c", "c", "e", "p", "t">>,
      <<"r", "e", "j", "e", "c", "t", "e", "d">>,
      <<"r", "e", "j", "e", "c", "t">>,
      <<"d", "e", "n", "i", "e", "d">>,
      <<"d", "e", "n", "y">>,
      <<"n", "o", "t">>,
      <<"p", "e", "n", "d", "i", "n", "g">>,
      <<"f", "u", "r", "t", "h", "e", "r">>,
      <<"i", "n", "v", "e", "s", "t", "i", "g", "a", "t", "i", "o", "n">>,
      <<"i", "n", "f", "o", "r", "m", "a", "t", "i", "o", "n">>,
      <<"u", "n", "d", "e", "c", "i", "d", "e", "d">>,
      <<"c", "l", "a", "i", "m">>,
      <<"b", "a", "n", "a", "n", "a">>,
      <<"n", "e", "e", "d", "s">> }

UpperChar(c) ==
    IF \E i \in 1..26 : Lowers[i] = c
    THEN Upper[CHOOSE i \in 1..26 : Lowers[i] = c]
    ELSE c

Capitalize(s) ==
    [i \in 1..Len(s) |-> IF i = 1 THEN UpperChar(s[i]) ELSE s[i]]

UpperCase(s) == [i \in 1..Len(s) |-> UpperChar(s[i])]

\* the phrases of exactly n words, in lower case
RECURSIVE Phrases(_)
Phrases(n) ==
    IF n = 1 THEN DecisionWords
    ELSE {p \o <<" ">> \o w : p \in Phrases(n - 1), w \in DecisionWords}

PhrasesUpTo(n) == UNION {Phrases(k) : k \in 1..n}

DecisionStrings ==
    {<<>>}
    \cup PhrasesUpTo(MaxWords)
    \cup {Capitalize(p) : p \in PhrasesUpTo(MaxWords)}
    \cup {UpperCase(p) : p \in PhrasesUpTo(MaxWords)}

VARIABLES
    nd_input,    \* the decision_str of the last _normalize_decision call
    nd_result    \* what the call returned, None before the first call

normVars == <<nd_input, nd_result>>

InitNorm ==
    /\ nd_input = <<>>
    /\ nd_result = None

\* the call of DecisionReasoningAgent._normalize_decision on some text
normalize_decision_call ==
    /\ nd_result = None
    /\ \E s \in DecisionStrings :
        /\ nd_input' = s
        /\ nd_result' = _normalize_decision(JStr(s))

NextNorm == normalize_decision_call


(***************************************************************************)
(* build_windowed_context as a function of its own: a chunk of up to       *)
(* MaxChunkLen characters in which the one query term of four letters is   *)
(* absent or first occurs at some offset, and a window of up to MaxWindow.  *)
(***************************************************************************)
MaxChunkLen == 8

MaxWindow == 6

\* q_terms keeps the words of at least four letters
MinTermLen == 4

WindowChunks ==
    {[id |-> 0, len |-> n, kw |-> NoKeywords, feats |-> NoFeatures,
      hits |-> [NoHits EXCEPT !["waiting"] = at] ] :
        n \in 0..MaxChunkLen, at \in -1..(MaxChunkLen - MinTermLen)}

VARIABLES
    wc_chunk,     \* the chunk of the build_windowed_context call
    wc_window,    \* its window
    wc_result     \* the excerpt returned, None before the call

windowVars == <<wc_chunk, wc_window, wc_result>>

InitWindow ==
    /\ wc_chunk = Chunk4
    /\ wc_window = PER_CLAUSE_WINDOW
    /\ wc_result = None

\* the call of build_windowed_context on some chunk and window, for a query
\* whose only long word is "waiting"
build_windowed_context_call ==
    /\ wc_result = None
    /\ \E chunk \in WindowChunks, window \in 0..MaxWindow :
        /\ chunk.hits["waiting"] = -1 \/ chunk.hits["waiting"] <= chunk.len - MinTermLen
        /\ wc_chunk' = chunk
        /\ wc_window' = window
        /\ wc_result' =
             LET w == build_windowed_context(<<"waiting">>, chunk, window)
             IN  <<"slice", w[1], w[2]>>

NextWindow == build_windowed_context_call

(***************************************************************************)
(* clean_json_response on the characters of a text: the texts are made of  *)
(* up to MaxPieces pieces, each a fence, a brace, a blank, a newline or a  *)
(* letter.                                                                 *)
(***************************************************************************)
MaxPieces == 3

\* the backquote character of the fences, written as a circumflex here
Backquote == "^"

JsonFence == <<Backquote, Backquote, Backquote, "j", "s", "o", "n">>

BareFence == <<Backquote, Backquote, Backquote>>

StartsWith(s, p) == Len(p) <= Len(s) /\ SubSeq(s, 1, Len(p)) = p

EndsWith(s, p) == Len(p) <= Len(s) /\ SubSeq(s, Len(s) - Len(p) + 1, Len(s)) = p

\* the offsets of a character in a text
IndexesOf(s, c) == {i \in 1..Len(s) : s[i] = c}

\* the least and the greatest of a non-empty set of offsets
Least(S) == CHOOSE i \in S : \A j \in S : i <= j

Greatest(S) == CHOOSE i \in S : \A j \in S : j <= i

\* re.search(r'\{.*\}', json_str, re.DOTALL) on the text from its first
\* opening brace: the span from that brace to the last closing brace after it
BraceSpan(s) ==
    LET open == Least(IndexesOf(s, "{"))
        closes == {i \in IndexesOf(s, "}") : i > open}
    IN  IF closes = {} THEN s ELSE SubSeq(s, open, Greatest(closes))

clean_json_response(text) ==
    IF Strip(text) = <<>> THEN text
    ELSE LET t1 == Strip(text)
             t2 == IF StartsWith(t1, JsonFence)
                   THEN SubSeq(t1, Len(JsonFence) + 1, Len(t1)) ELSE t1
             t3 == IF EndsWith(t2, BareFence)
                   THEN SubSeq(t2, 1, Len(t2) - Len(BareFence)) ELSE t2
             t4 == Strip(t3)
         IN  IF IndexesOf(t4, "{") = {} THEN t4 ELSE BraceSpan(t4)

TextPieces == {JsonFence, BareFence, <<" ">>, <<"\n">>, <<"{">>, <<"}">>, <<"a">>}

RECURSIVE TextsOf(_)
TextsOf(n) ==
    IF n = 0 THEN {<<>>}
    ELSE LET shorter == TextsOf(n - 1)
         IN  shorter \cup {t \o p : t \in shorter, p \in TextPieces}

CleanTexts == TextsOf(MaxPieces)

VARIABLES
    cj_text,     \* the text given to clean_json_response
    cj_once,     \* clean_json_response(text), None before the call
    cj_twice     \* clean_json_response of that result, None before the call

cleanVars == <<cj_text, cj_once, cj_twice>>

InitClean ==
    /\ cj_text = <<>>
    /\ cj_once = None
    /\ cj_twice = None

\* clean_json_response(text) for some text
clean_json_response_call ==
    /\ cj_once = None
    /\ \E text \in CleanTexts :
        /\ cj_text' = text
        /\ cj_once' = JStr(clean_json_response(text))
    /\ UNCHANGED cj_twice

\* clean_json_response of the text that the first call returned
clean_json_response_again ==
    /\ cj_once # None
    /\ cj_twice = None
    /\ cj_twice' = JStr(clean_json_response(cj_once[2]))
    /\ UNCHANGED <<cj_text, cj_once>>

NextClean == clean_json_response_call \/ clean_json_response_again

(***************************************************************************)
(* Specifications                                                          *)
(***************************************************************************)
vars == <<genVars, pipeVars, batchVars, normVars, windowVars, cleanVars>>

Init == InitGen /\ InitPipe /\ InitBatch /\ InitNorm /\ InitWindow /\ InitClean

\* the model client and the batch endpoint belong to chatgpt_app
InitChat == Init /\ variant = "chatgpt"

SpecGen == InitChat /\ [][NextGen /\ UNCHANGED <<pipeVars, batchVars, normVars, windowVars, cleanVars>>]_vars

Next == (NextChat \/ NextAws) /\ UNCHANGED <<genVars, batchVars, normVars, windowVars, cleanVars>>

Spec == Init /\ [][Next]_vars

SpecBatch == InitChat /\ [][NextBatch /\ UNCHANGED <<genVars, pipeVars, normVars, windowVars, cleanVars>>]_vars

SpecNorm == InitChat /\ [][NextNorm /\ UNCHANGED <<genVars, pipeVars, batchVars, windowVars, cleanVars>>]_vars

SpecWindow == InitChat /\ [][NextWindow /\ UNCHANGED <<genVars, pipeVars, batchVars, normVars, cleanVars>>]_vars

SpecClean == InitChat /\ [][NextClean /\ UNCHANGED <<genVars, pipeVars, batchVars, normVars, windowVars>>]_vars

\* the model client and the batch endpoint that calls it: a behaviour
\* follows one generate_content_async call on its own, or the requests of
\* the endpoint, whose attempts each stand for one such call
NextCalls ==
    \/ NextGen /\ nrequests = 0 /\ hx_pc = "idle" /\ UNCHANGED <<pipeVars, batchVars, normVars, windowVars, cleanVars>>
    \/ NextBatch /\ gen_pc = "idle" /\ UNCHANGED <<genVars, pipeVars, normVars, windowVars, cleanVars>>

SpecCalls == InitChat /\ [][NextCalls]_vars

(***************************************************************************)
(* Claims about the model client                                           *)
(***************************************************************************)
\* the contents that are text: neither None, nor empty, nor whitespace only
Texts == {Hello, Hi}

GenFinished == gen_pc \in {"returned", "raised"}

\* C3: in one generate call the primary is invoked exactly once and first,
\* the fallbacks follow in their configured order, each only after every
\* model before it raised or gave no text, and the call returns the first
\* text produced without invoking any model after its producer.
C3_PrimaryOnceThenFallbacksInOrder ==
    /\ \A i \in 1..Len(gen_calls) : gen_calls[i] = i - 1
    /\ \A i \in 1..Len(gen_calls) - 1 : gen_outcome[gen_calls[i]] \notin Texts
    /\ gen_pc # "idle" /\ gen_pc # "primary" => Len(gen_calls) >= 1
    /\ gen_pc = "returned" =>
          /\ gen_result \in Texts
          /\ gen_result = gen_outcome[gen_calls[Len(gen_calls)]]
    /\ gen_pc # "returned" =>
          \A i \in 1..Len(gen_calls) : gen_outcome[gen_calls[i]] \notin Texts

\* the primary failed, the first fallback answered "Hello", and the second
\* fallback, which would have answered too, was never called
C3_Witness ==
    /\ gen_pc = "returned"
    /\ gen_outcome[0] = ApiError
    /\ gen_outcome[2] = Hi
    /\ gen_calls = <<0, 1>>
    /\ gen_result = Hello

\* C4: a finished generate call has raised if and only if no configured
\* model would give text, and the only exception it surfaces is the
\* all-models-failed one.
C4_RaisesIffAllModelsFail ==
    GenFinished =>
      /\ (gen_pc = "raised") <=> (\A m \in Models : gen_outcome[m] \notin Texts)
      /\ gen_pc = "raised" => gen_result = AllModelsFailed
      /\ gen_pc = "returned" => ~IsRaise(gen_result)

\* every model raised or gave None, "" or whitespace, and the call raised
C4_Witness ==
    /\ gen_pc = "raised"
    /\ gen_outcome[0] = <<" ", "\n">>
    /\ gen_outcome[1] = None
    /\ gen_outcome[2] = ApiError
    /\ gen_calls = <<0, 1, 2, 3, 4>>

(***************************************************************************)
(* Claims about the single-query pipeline                                  *)
(***************************************************************************)
Finished == pc = "done"

DecisionTexts == {JStr(APPROVED), JStr(REJECTED), JStr(PENDING), JStr(ERROR)}

\* C1: whenever process_query has returned, its DecisionResponse exists and
\* its decision is one of APPROVED, REJECTED, PENDING, ERROR, whatever the
\* model client and the vector store did.
C1_DecisionInRange ==
    Finished => response # NoResponse /\ response.decision \in DecisionTexts

\* the model answered the reasoning prompt with a JSON object that has no
\* decision key, and the response came out as ERROR
C1_Witness ==
    /\ Finished
    /\ variant = "chatgpt"
    /\ trace = <<"llm:understand", "tier:primary", "llm:primary", "ok:primary">>
    /\ IsDict(ctx.decision)
    /\ ~HasKey(ctx.decision, "decision")
    /\ response.decision = JStr(ERROR)

\* C2: whenever process_query has returned, the confidence_score of its
\* DecisionResponse is an integer between 0 and 100.
C2_ConfidenceInRange ==
    Finished =>
      /\ TypeOf(response.confidence_score) = "int"
      /\ response.confidence_score[2] >= 0
      /\ response.confidence_score[2] <= 100

\* C7: no exception escapes process_query; a call in which an exception
\* was raised ends with the ERROR response: confidence 0, the exception
\* text in the justification, the failure in the audit trail and a
\* processing time.
C7_NoExceptionEscapes ==
    /\ pc # "escaped"
    /\ Finished /\ exc # None =>
         /\ response.decision = JStr(ERROR)
         /\ response.confidence_score = JInt(0)
         /\ response.justification = <<"msg", "Processing failed: ", exc[2]>>
         /\ response.audit_trail = <<"Error occurred during processing">>
         /\ response.processing_time = "computed"

\* the tiers entered and the model calls made by the decision stage
DecisionTrace == IF trace = <<>> THEN <<>> ELSE Tail(trace)

IsPrefix(a, b) == Len(a) <= Len(b) /\ SubSeq(b, 1, Len(a)) = a

PrimaryOnly == <<"tier:primary", "llm:primary", "ok:primary">>

UpToAIDecision == <<"tier:primary", "llm:primary", "fail:primary",
                    "tier:ai", "llm:rules", "llm:ai", "ok:ai">>

UpToBasicRules == <<"tier:primary", "llm:primary", "fail:primary",
                    "tier:ai", "llm:rules", "llm:ai", "fail:ai", "tier:basic">>

\* C8: the decision stage enters its tiers only in the order primary, rule
\* extraction + AI decision, basic heuristic: the AI tier right after the
\* primary attempt failed, the basic heuristic right after the AI decision
\* failed, no tier twice, nothing after a tier that succeeded, and no model
\* call in the basic heuristic.
C8_TierOrder ==
    \/ IsPrefix(DecisionTrace, PrimaryOnly)
    \/ IsPrefix(DecisionTrace, UpToAIDecision)
    \/ IsPrefix(DecisionTrace, UpToBasicRules)

\* all three tiers were entered and the basic heuristic gave the decision
C8_Witness ==
    /\ Finished
    /\ DecisionTrace = UpToBasicRules
    /\ response.confidence_score = JInt(60)

\* C9: whenever the retrieval stage left zero documents, the response is
\* PENDING with confidence 20, no amount and a justification about the
\* missing policy documents, and the decision stage entered no tier and
\* called no model.
C9_NoDocumentsPending ==
    Finished /\ ctx.retrieved_docs = JList(<<>>) =>
      /\ response.decision = JStr(PENDING)
      /\ response.confidence_score = JInt(20)
      /\ response.amount = None
      /\ response.justification \in
           {<<"msg", "Could not retrieve relevant policy documents.">>,
            <<"msg", "No relevant policy documents found. Please upload policy documents for assessment.">>}
      /\ DecisionTrace = <<>>

\* the similarity search raised for the knee-surgery query: nothing was
\* cached, no document was retrieved, and the response is PENDING
C9_Witness ==
    /\ Finished
    /\ variant = "chatgpt"
    /\ query = Query1
    /\ nqueries = 1
    /\ Len(search_calls) = 1
    /\ DOMAIN retrieval_cache = {}
    /\ ctx.retrieved_docs = JList(<<>>)
    /\ response.decision = JStr(PENDING)

(***************************************************************************)
(* Claims about the batch endpoint (SpecBatch)                             *)
(***************************************************************************)
RequestEnded == hx_pc \in {"done", "raised"}

\* C5: a request that has ended has returned a list of exactly
\* len(questions) answers, and answer i is the answer that the group of
\* question i (groups of five consecutive questions) holds for it.
C5_AnswersInOrder ==
    RequestEnded =>
      /\ TypeOf(hx_result) = "list"
      /\ Len(hx_result[2]) = Len(questions)
      /\ \A i \in 1..Len(questions) :
            /\ ((i - 1) \div 5) + 1 \in Groups
            /\ ((i - 1) % 5) + 1 \in DOMAIN grp[((i - 1) \div 5) + 1].answers
            /\ hx_result[2][i] =
                 grp[((i - 1) \div 5) + 1].answers[((i - 1) % 5) + 1]

\* C6: no group ever ends by raising: whatever fails inside a group, the
\* group returns and the join point sees no exception.
C6_NoGroupRaises ==
    \A g \in Groups : grp[g].pc # "raised" /\ grp[g].exc = None

\* C10: in every group the waits taken so far are 5, 10, 20, ... (the i-th
\* wait is 5 * 2^(i-1)), at most three attempts are made, a group that has
\* returned has waited once less than it attempted, and a group whose three
\* attempts all failed with a message containing "429" has returned one
\* sentinel per question after the waits 5 and 10.
C10_BackoffSequence ==
    \A g \in Groups :
      /\ \A i \in 1..Len(grp[g].waits) : grp[g].waits[i] = 5 * (2 ^ (i - 1))
      /\ Len(grp[g].log) <= 3
      /\ grp[g].pc = "sleep" => Len(grp[g].waits) = Len(grp[g].log)
      /\ grp[g].pc = "returned" => Len(grp[g].waits) = Len(grp[g].log) - 1
      /\ grp[g].log = <<"429", "429", "429">> =>
            /\ grp[g].pc = "returned"
            /\ grp[g].waits = <<5, 10>>
            /\ Len(grp[g].answers) = Len(grp[g].batch)
            /\ \A i \in 1..Len(grp[g].answers) :
                  grp[g].answers[i] = NotSpecified

\* the second group of a request of six questions failed three times with a
\* message containing "429": it waited 5 and 10 seconds and returned its
\* sentinel
C10_Witness ==
    /\ Len(questions) = 6
    /\ 2 \in Groups
    /\ grp[2].log = <<"429", "429", "429">>
    /\ grp[2].waits = <<5, 10>>
    /\ grp[2].pc = "returned"
    /\ grp[2].answers = <<NotSpecified>>

\* C11: an attempt that failed because the client raised, the call timed
\* out, the text held no JSON array or the array had the wrong length is
\* the last attempt of its group: no wait and no further attempt follows it,
\* and the group has returned one sentinel per question.
C11_OtherFailuresNotRetried ==
    \A g \in Groups : \A i \in 1..Len(grp[g].causes) :
        grp[g].causes[i] \in {"client", "timeout", "parse", "length"} =>
            /\ i = Len(grp[g].causes)
            /\ grp[g].waits = <<>>
            /\ grp[g].pc = "returned"
            /\ Len(grp[g].answers) = Len(grp[g].batch)
            /\ \A j \in 1..Len(grp[g].answers) :
                  grp[g].answers[j] = NotSpecified

\* C12: a request whose list of questions is empty ends by returning the
\* empty list of answers, not by raising.
C12_EmptyListEmptyResult ==
    RequestEnded /\ questions = <<>> => hx_result = JList(<<>>)

\* C13: once the understanding stage has run, the structured query of the
\* context is a record with exactly the fields age, gender, location,
\* procedure, policy_duration_months and intent, so that the retrieval stage
\* can read them.
C13_StructuredQueryFields ==
    variant = "chatgpt" /\ ctx.structured_query # None =>
      /\ TypeOf(ctx.structured_query) = "dict"
      /\ DOMAIN ctx.structured_query[2] =
           {"age", "gender", "location", "procedure",
            "policy_duration_months", "intent"}

(***************************************************************************)
(* Claims about decision normalization (SpecNorm)                          *)
(***************************************************************************)
NormalizedInput == Lower(nd_input)

MatchesApprove ==
    \E w \in {<<"a", "p", "p", "r", "o", "v", "e", "d">>,
              <<"a", "p", "p", "r", "o", "v", "e">>,
              <<"e", "l", "i", "g", "i", "b", "l", "e">>,
              <<"a", "c", "c", "e", "p", "t">>} : Contains(NormalizedInput, w)

NotEligible == <<"n", "o", "t", " ", "e", "l", "i", "g", "i", "b", "l", "e">>

MatchesReject ==
    \E w \in {<<"r", "e", "j", "e", "c", "t", "e", "d">>,
              <<"r", "e", "j", "e", "c", "t">>,
              <<"d", "e", "n", "i", "e", "d">>,
              <<"d", "e", "n", "y">>,
              NotEligible} : Contains(NormalizedInput, w)

\* C14: every call of the normalization returns APPROVED, REJECTED or
\* PENDING; a text with an approve token and no reject token gives APPROVED;
\* a text with a reject token and no approve token, and the text
\* "not eligible" in any case, gives REJECTED; a text with neither kind of
\* token (a pending token, the empty text, "banana") gives PENDING.
C14_NormalizationTable ==
    nd_result # None =>
      /\ nd_result \in {<<"str", <<"A", "P", "P", "R", "O", "V", "E", "D">>>>,
                        <<"str", <<"R", "E", "J", "E", "C", "T", "E", "D">>>>,
                        <<"str", <<"P", "E", "N", "D", "I", "N", "G">>>>}
      /\ MatchesApprove /\ ~MatchesReject =>
            nd_result = <<"str", <<"A", "P", "P", "R", "O", "V", "E", "D">>>>
      /\ MatchesReject /\ (~MatchesApprove \/ NormalizedInput = NotEligible) =>
            nd_result = <<"str", <<"R", "E", "J", "E", "C", "T", "E", "D">>>>
      /\ ~MatchesApprove /\ ~MatchesReject =>
            nd_result = <<"str", <<"P", "E", "N", "D", "I", "N", "G">>>>

(***************************************************************************)
(* Claims about the pipeline, continued (Spec)                             *)
(***************************************************************************)
BasicTierReached == \E i \in 1..Len(trace) : trace[i] = "tier:basic"

\* C15: once the basic-heuristic tier has been reached, the context holds a
\* decision record whose decision is PENDING, with confidence 30 if the
\* procedure is unset, else 40 if policy_duration_months is below 3, else 60.
C15_BasicRulesPending ==
    BasicTierReached =>
      /\ TypeOf(ctx.decision) = "dict"
      /\ ctx.decision[2].decision = <<"str", <<"P", "E", "N", "D", "I", "N", "G">>>>
      /\ ctx.decision[2].confidence_score =
            IF Falsy(Get(ctx.structured_query, "procedure", None))
            THEN <<"int", 30>>
            ELSE IF TypeOf(Get(ctx.structured_query, "policy_duration_months",
                               <<"int", 1>>)) = "int"
                    /\ Get(ctx.structured_query, "policy_duration_months",
                           <<"int", 1>>)[2] < 3
            THEN <<"int", 40>>
            ELSE <<"int", 60>>

(***************************************************************************)
(* Claims about build_windowed_context (SpecWindow)                        *)
(***************************************************************************)
\* C16: the excerpt returned by build_windowed_context is a slice
\* [lo, hi) of the chunk, 0 <= lo <= hi <= len(chunk), that is no longer
\* than the window and no longer than the chunk.
C16_ExcerptWithinWindow ==
    wc_result # None =>
      /\ 0 <= wc_result[2]
      /\ wc_result[2] <= wc_result[3]
      /\ wc_result[3] <= wc_chunk.len
      /\ wc_result[3] - wc_result[2] <= wc_window
      /\ wc_result[3] - wc_result[2] <= wc_chunk.len

\* a chunk of 8 characters with the term at offset 4 and a window of 4: the
\* excerpt starts 2 before the term and is cut to the window
C16_Witness ==
    /\ wc_chunk.len = 8
    /\ wc_chunk.hits["waiting"] = 4
    /\ wc_window = 4
    /\ wc_result = <<"slice", 2, 6>>

(***************************************************************************)
(* Claims about clean_json_response (SpecClean)                            *)
(***************************************************************************)
\* a text with at most one opening brace holds at most one JSON object
AtMostOneObject(text) == Cardinality(IndexesOf(text, "{")) <= 1

\* C17: clean_json_response is idempotent on every text with at most one
\* top-level JSON object, fenced or not: cleaning the cleaned text returns
\* the cleaned text.
C17_CleanIdempotent ==
    (cj_twice # None /\ AtMostOneObject(cj_text)) => cj_twice = cj_once

(***************************************************************************)
(* Claims about _process_amount_field (Spec)                               *)
(***************************************************************************)
\* the AI-decision tier has just returned a decision
AIDecisionMade == trace # <<>> /\ trace[Len(trace)] = "ok:ai"

\* C18: the amount that _process_amount_field leaves in the decision of the
\* AI-decision tier is either null or a non-negative number.
C18_AmountNullOrNonNegative ==
    AIDecisionMade =>
        \/ ctx.decision[2]["amount"] = None
        \/ /\ TypeOf(ctx.decision[2]["amount"]) \in {"int", "float"}
           /\ ctx.decision[2]["amount"][2] >= 0

(***************************************************************************)
(* Claims about the retrieval cache of SemanticRetrievalAgent (Spec)       *)
(***************************************************************************)
\* the search string of the query that is about to be retrieved
SearchString == Strip(Join(SearchParts(ctx.structured_query)))

\* the retrieval stage runs to its end in this step
Retrieves == variant = "chatgpt" /\ pc = "retrieve" /\ pc' = "decide"

\* C19: the retrieval cache is keyed by the exact search string.  In every
\* step an entry of the cache stays as it is; similarity_search is called
\* only for a string that has no entry, and the documents it returns are
\* stored under that string and served; a query whose string has an entry
\* is served the stored documents and no search is made.
C19_CacheKeyedBySearchString ==
    [][ /\ \A k \in DOMAIN retrieval_cache :
              k \in DOMAIN retrieval_cache' /\ retrieval_cache'[k] = retrieval_cache[k]
        /\ search_calls' # search_calls =>
              /\ Retrieves
              /\ search_calls' = Append(search_calls, SearchString)
              /\ SearchString \notin DOMAIN retrieval_cache
              /\ DOMAIN retrieval_cache' \subseteq DOMAIN retrieval_cache \cup {SearchString}
              /\ \/ /\ SearchString \in DOMAIN retrieval_cache'
                    /\ retrieval_cache'[SearchString] \in SearchOutcomes
                    /\ ctx'.retrieved_docs =
                         JList(SortedByBias(retrieval_cache'[SearchString][2], query.cats))
                 \/ /\ retrieval_cache' = retrieval_cache
                    /\ ctx'.retrieved_docs = JList(<<>>)
        /\ search_calls' = search_calls => retrieval_cache' = retrieval_cache
        /\ (Retrieves /\ SearchString \in DOMAIN retrieval_cache) =>
              /\ search_calls' = search_calls
              /\ ctx'.retrieved_docs =
                   JList(SortedByBias(retrieval_cache[SearchString][2], query.cats))
      ]_vars

\* the second query has the search string of the first: one search was made,
\* and the second query got the documents stored by the first
C19_Witness ==
    /\ variant = "chatgpt"
    /\ nqueries = 2
    /\ pc = "decide"
    /\ Len(search_calls) = 1
    /\ cache_hits = search_calls
    /\ Len(ctx.retrieved_docs[2]) = 3
    /\ ctx.retrieved_docs =
         JList(SortedByBias(retrieval_cache[cache_hits[1]][2], query.cats))

(***************************************************************************)
(* Claims about the complexity of a question group (SpecBatch)             *)
(***************************************************************************)
\* C20: a group with a complex question has both a strictly longer timeout
\* and a strictly higher retry budget than a group without one.
C20_ComplexGroupsGetMore ==
    \A g \in Groups, h \in Groups :
        (is_complex_batch(grp[g].batch) /\ ~is_complex_batch(grp[h].batch)) =>
            /\ grp[g].timeout > grp[h].timeout
            /\ grp[g].max_retries > grp[h].max_retries

(***************************************************************************)
(* Claims about the caches of hackrx_run under concurrent groups           *)
(* (SpecBatch)                                                             *)
(***************************************************************************)
\* two groups await the summary of the same question at the same time
SummaryRace ==
    \E g \in Groups, h \in Groups :
        /\ g # h
        /\ grp[g].pc = "summarize"
        /\ grp[h].pc = "summarize"
        /\ grp[g].batch[grp[g].qi].id = grp[h].batch[grp[h].qi].id

\* C21: tasks that miss the same key of the retrieval or the summary cache
\* compute the same value: a write to a key that holds an entry writes the
\* value the entry holds, so the entry is what one sequential computation
\* would have stored whichever write lands last.
C21_RacingWritesAgree ==
    [][ /\ \A k \in DOMAIN summary_cache :
              k \in DOMAIN summary_cache' /\ summary_cache'[k] = summary_cache[k]
        /\ \A k \in DOMAIN hackrx_retrieval_cache :
              /\ k \in DOMAIN hackrx_retrieval_cache'
              /\ hackrx_retrieval_cache'[k] = hackrx_retrieval_cache[k]
      ]_vars

(***************************************************************************)
(* Claims about the raw context of a question (SpecBatch)                  *)
(***************************************************************************)
BatchQuestions == {QWait, QMaternity, QAge, QAmount, QIdent}

\* the question and the document of a key of the retrieval cache
QuestionOf(key) == CHOOSE q \in BatchQuestions : q.id = key[2]

DocumentOf(key) == CHOOSE d \in BatchDocuments : d.doc_hash = key[1]

\* the chunks retrieved for a key, in ranked order
RankedChunks(key) ==
    SortedByBias(simple_retrieve(DocumentOf(key).chunks,
                                 dynamic_k(DocumentOf(key).doc_length)),
                 QuestionOf(key).cats)

\* the length of the windowed excerpt of a chunk for the question of a key
WholeExcerptLen(key, chunk) ==
    LET w == build_windowed_context(QuestionOf(key).terms, chunk, PER_CLAUSE_WINDOW)
    IN  w[2] - w[1]

\* the excerpts of a raw context are those of the first chunks in ranked order
InRankedOrder(key, parts) ==
    /\ Len(parts) <= Len(RankedChunks(key))
    /\ \A i \in 1..Len(parts) : parts[i].chunk = RankedChunks(key)[i]

\* the excerpts stop at the first chunk that finds the budget used up
StopsWhenExhausted(key, parts) ==
    \/ Len(parts) = Len(RankedChunks(key))
    \/ PartsLen(parts) >= MAX_CONTEXT_CHARS

WithinBudget(parts) == PartsLen(parts) <= MAX_CONTEXT_CHARS

\* C22: a raw context takes the documents in ranked order, holds at most
\* MAX_CONTEXT_CHARS excerpt characters, stops once the budget is used up,
\* and holds of each document it includes the whole windowed excerpt: no
\* excerpt is cut short by the budget.
C22_WholeExcerptsWithinBudget ==
    \A key \in DOMAIN hackrx_retrieval_cache :
        LET parts == hackrx_retrieval_cache[key] IN
        /\ InRankedOrder(key, parts)
        /\ WithinBudget(parts)
        /\ StopsWhenExhausted(key, parts)
        /\ \A i \in 1..Len(parts) :
              parts[i].hi - parts[i].lo = WholeExcerptLen(key, parts[i].chunk)

(***************************************************************************)
(* Claims about the validation of the AI decision (Spec)                   *)
(***************************************************************************)
\* the failures of _make_ai_decision on a response that holds no JSON
\* object, lacks a required key, or has a confidence that int() refuses
InvalidResponseErrors ==
    { Raise("No JSON found in decision response"),
      Raise("Missing required decision fields"),
      Raise("ValueError: invalid literal for int()"),
      Raise("TypeError: int() argument") }

\* C23: a response of the AI-decision tier that holds no JSON object, lacks
\* one of decision, justification, amount, confidence_score, or has a
\* confidence that is no integer is never returned as the decision: the tier
\* fails and the basic heuristic produces the decision instead.
C23_InvalidAIResponseFallsToBasic ==
    /\ AIDecisionMade =>
          /\ IsDict(ctx.decision)
          /\ RequiredKeys \subseteq DOMAIN ctx.decision[2]
          /\ TypeOf(ctx.decision[2]["confidence_score"]) = "int"
    /\ (ai_error \in InvalidResponseErrors /\ pc # "basic") =>
          /\ BasicTierReached
          /\ IsDict(ctx.decision)
          /\ ctx.decision[2]["decision"] = JStr(PENDING)
          /\ ctx.decision[2]["confidence_score"] \in {JInt(30), JInt(40), JInt(60)}

(***************************************************************************)
(* Claims about the contexts and overrides of a group (SpecBatch)          *)
(***************************************************************************)
\* the questions of a group whose iteration of the context loop has ended
Processed(G) ==
    IF G.pc \in {"contexts", "summarize"} THEN G.qi - 1
    ELSE IF G.pc \in {"call", "sleep", "returned"} THEN Len(G.batch)
    ELSE Len(G.override_answers)

\* C24: every question whose iteration has ended, or has begun to append,
\* has exactly one context entry and one override entry, in question order;
\* an entry is the empty context with the override none, or a context of 50
\* characters or more.
C24_OneContextAndOverridePerQuestion ==
    \A g \in Groups :
        /\ Len(grp[g].batch_contexts) = Len(grp[g].override_answers)
        /\ Len(grp[g].batch_contexts) = Processed(grp[g])
        /\ \A i \in 1..Len(grp[g].batch_contexts) :
              \/ /\ grp[g].batch_contexts[i].kind = "empty"
                 /\ grp[g].batch_contexts[i].len = 0
                 /\ i \in DOMAIN grp[g].override_answers
                 /\ grp[g].override_answers[i] = None
              \/ /\ grp[g].batch_contexts[i].kind \in {"summary", "raw"}
                 /\ grp[g].batch_contexts[i].len >= 50

(***************************************************************************)
(* Claims about the order of the stages of process_query (Spec)            *)
(***************************************************************************)
\* the steps of the decision-reasoning stage
DecisionStage == {"decide", "rules", "ai_decision", "basic"}

\* an explanation that has been written is the record of its two fields,
\* clause_mappings and audit_trail
ExplanationWritten(c) == Cardinality(DOMAIN c.explanation) = 2

\* C25: within a process_query call the stages run one after the other and
\* each at most once, in the order entity extraction, evidence retrieval,
\* decision reasoning, explanation building; a stage starts only when the
\* stage before it has written its output to the context, whichever path
\* that stage took.
C25_StagesInOrder ==
    [][ /\ (pc' = "understand" /\ pc' # pc) => pc \in {"idle", "done", "escaped"}
        /\ (pc' = "retrieve" /\ pc' # pc) =>
              pc = "understand" /\ ctx'.structured_query # None
        /\ (pc' = "decide" /\ pc' # pc) =>
              pc = "retrieve" /\ ctx'.retrieved_docs # None
        /\ (pc' \in DecisionStage \ {"decide"} /\ pc' # pc) =>
              pc \in DecisionStage /\ ctx'.retrieved_docs # None
        /\ (pc' = "explain" /\ pc' # pc) =>
              pc \in DecisionStage /\ ctx'.decision # None
        /\ (pc' = "respond" /\ pc' # pc) =>
              pc = "explain" /\ ExplanationWritten(ctx')
      ]_vars

\* all four stages have run, the first on its regex fallback and the third
\* down to the basic heuristic
C25_Witness ==
    /\ pc = "respond"
    /\ variant = "chatgpt"
    /\ ctx.structured_query = _extract_entities_fallback(query)
    /\ BasicTierReached
    /\ ctx.retrieved_docs # None
    /\ ctx.decision # None
    /\ ExplanationWritten(ctx)

(***************************************************************************)
(* Claims about the result of clean_json_response (SpecClean)              *)
(***************************************************************************)
\* the text without its surrounding blanks, its leading json fence and its
\* trailing fence
FenceStripped(text) ==
    LET t1 == Strip(text)
        t2 == IF StartsWith(t1, JsonFence)
              THEN SubSeq(t1, Len(JsonFence) + 1, Len(t1)) ELSE t1
        t3 == IF EndsWith(t2, BareFence)
              THEN SubSeq(t2, 1, Len(t2) - Len(BareFence)) ELSE t2
    IN  Strip(t3)

\* the closing braces after the first opening brace
ClosesAfterOpen(t) == {i \in IndexesOf(t, "}") : i > Least(IndexesOf(t, "{"))}

\* C26: for a text that is not blank, clean_json_response returns the
\* fence-stripped text when it has no opening brace, the span from the first
\* opening brace to the last closing brace when there is one after it, and
\* the text from the first opening brace on when there is none.
C26_CleanResult ==
    (cj_once # None /\ Strip(cj_text) # <<>>) =>
        LET t == FenceStripped(cj_text) IN
        IF IndexesOf(t, "{") = {} THEN cj_once[2] = t
        ELSE IF ClosesAfterOpen(t) # {}
        THEN cj_once[2] = SubSeq(t, Least(IndexesOf(t, "{")), Greatest(ClosesAfterOpen(t)))
        ELSE cj_once[2] = SubSeq(t, Least(IndexesOf(t, "{")), Len(t))

(***************************************************************************)
(* Claims about overrides and metrics (SpecBatch)                          *)
(***************************************************************************)
\* every group of the request has returned its list of answers
AllGroupsReturned == Groups # {} /\ \A g \in Groups : grp[g].pc = "returned"

\* the answers of a group are what the model wrote for its questions, or
\* one sentinel per question
AnswersAsGiven(G) ==
    \/ G.answers = Sentinels(Len(G.batch))
    \/ G.answers \in AnswerArrays(G.batch)

\* no group was ended by the computation of an override
NoOverrideRaised == \A g \in Groups : grp[g].exc # IndexError

\* C27: the answers returned for a request are the results of its groups,
\* flattened: the metrics never keep them from being returned, whatever the
\* model put in its arrays, and the overrides neither replace an answer nor
\* end a group.
C27_MetricsAndOverridesLeaveAnswers ==
    /\ (RequestEnded /\ AllGroupsReturned) =>
          hx_result = JList(Flatten(1, Cardinality(Groups)))
    /\ \A g \in Groups : grp[g].pc = "returned" => AnswersAsGiven(grp[g])
    /\ NoOverrideRaised

(***************************************************************************)
(* Claims about hits of the retrieval cache of hackrx_run (SpecBatch)      *)
(***************************************************************************)
\* the context that a miss of the retrieval cache puts in the prompt: a miss
\* scores 1.0, issues no summary call and takes the raw context, cut to
\* 1500 characters, or the empty context when that is shorter than 50
ContextOnMiss(question) ==
    LET fresh == RawPrefix(RetrieveContext(question, document))
    IN  IF fresh.len < 50 THEN [kind |-> "empty", len |-> 0] ELSE fresh

\* C28: a hit of the retrieval cache is equivalent to recomputing: for the
\* same document and question it puts in the batched prompt the context
\* that a miss puts there, and it issues a summary call only if a miss does.
C28_HitEquivalentToMiss ==
    \A g \in Groups :
        /\ grp[g].pc # "summarize"
        /\ \A i \in 1..Len(grp[g].batch_contexts) :
              grp[g].batch_contexts[i] = ContextOnMiss(grp[g].batch[i])

(***************************************************************************)
(* C29: model invocation makes a bounded number of calls.  One             *)
(* generate_content_async call invokes each configured model at most once, *)
(* so at most 1 + the number of fallbacks calls; one batch makes at most   *)
(* max_retries attempts, and once its retry loop has ended the answers     *)
(* variable is a list of exactly the length of the batch (the loop never   *)
(* runs out with answers still None).                                      *)
(***************************************************************************)
EachModelAtMostOnce ==
    /\ Len(gen_calls) <= 1 + Len(fallback_models)
    /\ \A i, j \in 1..Len(gen_calls) : gen_calls[i] = gen_calls[j] => i = j

RetryLoopEnded(G) == G.log # <<>> /\ G.pc \in {"returned", "raised"}

C29_BoundedModelCalls ==
    /\ EachModelAtMostOnce
    /\ \A g \in Groups :
        LET G == grp[g] IN
        /\ Len(G.log) <= G.max_retries
        /\ G.attempt < G.max_retries
        /\ G.exc # ZipTypeError
        /\ RetryLoopEnded(G) /\ G.exc = None
              => Len(G.answers) = Len(G.batch)

\* a batch of several questions used its whole retry budget on rate-limit
\* errors and left the loop with one sentinel per question
C29_Witness ==
    \E g \in Groups :
        /\ Len(grp[g].batch) > 1
        /\ grp[g].log = <<"429", "429", "429">>
        /\ grp[g].pc = "returned"
        /\ Len(grp[g].answers) = Len(grp[g].batch)

(***************************************************************************)
(* C30: a failed similarity search is never stored in the retrieval cache. *)
(* When the search raises, the query gets an empty document list and the   *)
(* cache is left as it was; a string all of whose searches raised has no   *)
(* entry, so a later query with that string is not served from the cache:  *)
(* similarity_search is called for it again.                               *)
(***************************************************************************)
RECURSIVE Occurrences(_, _)
Occurrences(seq, x) ==
    IF seq = <<>> THEN 0
    ELSE (IF Head(seq) = x THEN 1 ELSE 0) + Occurrences(Tail(seq), x)

\* every similarity search made for this string so far has raised
OnlyFailed(k) ==
    /\ Occurrences(search_errors, k) > 0
    /\ Occurrences(search_errors, k) = Occurrences(search_calls, k)

C30_FailedSearchNotCached ==
    [][ /\ search_errors' # search_errors =>
              /\ Retrieves
              /\ search_errors' = Append(search_errors, SearchString)
              /\ search_calls' = Append(search_calls, SearchString)
              /\ ctx'.retrieved_docs = JList(<<>>)
              /\ retrieval_cache' = retrieval_cache
              /\ SearchString \notin DOMAIN retrieval_cache'
        /\ \A i \in 1..Len(search_errors) :
              OnlyFailed(search_errors[i]) =>
                 search_errors[i] \notin DOMAIN retrieval_cache
        /\ (Retrieves /\ OnlyFailed(SearchString)) =>
              /\ search_calls' = Append(search_calls, SearchString)
              /\ cache_hits' = cache_hits
      ]_vars

\* the search of the first query raised; the second query has the same
\* search string, was searched again and got the three documents found
C30_Witness ==
    /\ variant = "chatgpt"
    /\ nqueries = 2
    /\ pc = "decide"
    /\ Len(search_calls) = 2
    /\ search_calls[1] = search_calls[2]
    /\ search_errors = <<search_calls[1]>>
    /\ cache_hits = <<>>
    /\ Len(ctx.retrieved_docs[2]) = 3

====
